---- MODULE Spec2Model ----
(***************************************************************************)
(* Model of the customs-value batch engine: the allocation algorithm       *)
(* (lib/customs/distributor.ts), the per-order state machine               *)
(* (lib/processor/order.ts), the quota throttle (lib/shiphero/quota.ts),   *)
(* the processing cursor (lib/db/cursor.ts) and the batch orchestrator     *)
(* (lib/processor/batch.ts) as invoked by the cron route.                  *)
(*                                                                         *)
(* Money is kept in thousandths of a euro ("mills"): 0.50 EUR = 500.       *)
(* IEEE doubles are modelled as fixed-point mills whose divisions          *)
(* truncate; toFixed(2) rounds a mills value to the nearest cent.          *)
(* Time is kept in milliseconds, as Date.now() reports it.                 *)
(***************************************************************************)
EXTENDS Integers, Sequences, FiniteSets, TLC

\* ---------------------------------------------------------------- bounds
MaxItems == 3
MaxWeight == 3

\* ------------------------------------------------------ program constants
MIN_ITEM_VALUE == 500
MAX_ITEM_VALUE == 8000
DEFAULT_MAX_TOTAL == 25000
ROUNDING_TOLERANCE == 10

\* ------------------------------------------------------------- arithmetic
Min2(a, b) == IF a <= b THEN a ELSE b
Max2(a, b) == IF a >= b THEN a ELSE b

RECURSIVE SumSeq(_)
SumSeq(s) == IF s = <<>> THEN 0 ELSE Head(s) + SumSeq(Tail(s))

\* Number.prototype.toFixed(2) followed by parseFloat: the nearest cent.
toFixed2(v) == ((v + 5) \div 10) * 10

\* ------------------------------------------------- lib/customs/distributor
\* item.price is a decimal string, kept as its amount (negative, zero or
\* positive); NoPrice is an absent or empty price and NaN a string that
\* parseFloat cannot read
NoPrice == 0 - 1000001
NaN == 0 - 1000002

\* parseFloat(item.price || '0')
parsePrice(price) == IF price = NoPrice THEN 0 ELSE price

\* parseFloat(item.price || '0') > 0: a comparison with NaN is false
isBillablePrice(price) == parsePrice(price) # NaN /\ parsePrice(price) > 0

\* parseFloat(item.price || '0') <= 0
isComplimentaryPrice(price) == parsePrice(price) # NaN /\ parsePrice(price) <= 0

\* weight / totalWeight * maxTotal, clamped to [MIN_ITEM_VALUE, MAX_ITEM_VALUE]
initialShares(weights, maxTotal) ==
  LET totalWeight == SumSeq(weights)
  IN [i \in 1..Len(weights) |->
        Max2(MIN_ITEM_VALUE,
             Min2(MAX_ITEM_VALUE, (weights[i] * maxTotal) \div totalWeight))]

\* variant: the scaled share is not held at MIN_ITEM_VALUE
scaleDown_noFloor(values, maxTotal) ==
  LET currentTotal == SumSeq(values)
  IN IF currentTotal > maxTotal
       THEN [i \in 1..Len(values) |-> (values[i] * maxTotal) \div currentTotal]
       ELSE values

\* if the total exceeds maxTotal, scale every share by maxTotal / total,
\* never below MIN_ITEM_VALUE
scaleDown(values, maxTotal) ==
  LET currentTotal == SumSeq(values)
  IN IF currentTotal > maxTotal
       THEN [i \in 1..Len(values) |->
               Max2(MIN_ITEM_VALUE, (values[i] * maxTotal) \div currentTotal)]
       ELSE values

\* if room is left, share it equally among the items not at the maximum
redistribute(values, maxTotal) ==
  LET currentTotal == SumSeq(values)
      notAtMax == {i \in 1..Len(values) :
                     values[i] < MAX_ITEM_VALUE - ROUNDING_TOLERANCE}
  IN IF currentTotal < maxTotal - ROUNDING_TOLERANCE /\ notAtMax # {}
       THEN LET extraPerItem == (maxTotal - currentTotal) \div Cardinality(notAtMax)
            IN [i \in 1..Len(values) |->
                  IF i \in notAtMax
                    THEN Min2(MAX_ITEM_VALUE, values[i] + extraPerItem)
                    ELSE values[i]]
       ELSE values

\* indices in the order of [...distributions].sort((a, b) => b.value - a.value)
\* (a stable sort: equal values keep their input order)
sortedByValue(values) ==
  LET before(j, i) == values[j] > values[i] \/ (values[j] = values[i] /\ j < i)
      rank(i) == Cardinality({j \in 1..Len(values) : before(j, i)})
  IN [k \in 1..Len(values) |-> CHOOSE i \in 1..Len(values) : rank(i) = k - 1]

RECURSIVE reduceLargest(_, _, _, _)
reduceLargest(values, order, k, remainingExcess) ==
  IF k > Len(order) \/ remainingExcess <= 0
    THEN values
    ELSE LET i == order[k]
             canReduce == values[i] - MIN_ITEM_VALUE
             reduction == Min2(remainingExcess, canReduce)
         IN reduceLargest(
              [values EXCEPT ![i] = Max2(MIN_ITEM_VALUE, values[i] - reduction)],
              order, k + 1, remainingExcess - reduction)

\* final adjustment: take the excess from the largest items first
finalAdjust(values, maxTotal) ==
  LET currentTotal == SumSeq(values)
  IN IF currentTotal > maxTotal
       THEN reduceLargest(values, sortedByValue(values), 1, currentTotal - maxTotal)
       ELSE values

\* variant: a single item is held at MIN_ITEM_VALUE as well
singleItemValue_clamped(maxTotal) ==
  Max2(MIN_ITEM_VALUE, Min2(maxTotal, MAX_ITEM_VALUE))

\* the edge case of a single item: Math.min(maxTotal, MAX_ITEM_VALUE)
singleItemValue(maxTotal) == Min2(maxTotal, MAX_ITEM_VALUE)

\* billableItems: sequence of line items, weights: one random weight per item
distributeBillableItems(billableItems, maxTotal, weights) ==
  IF Len(billableItems) = 1
    THEN << [lineItemId |-> billableItems[1].id,
             newCustomsValue |-> toFixed2(singleItemValue(maxTotal)),
             isComplimentary |-> FALSE] >>
    ELSE LET values == finalAdjust(
                         redistribute(
                           scaleDown(initialShares(weights, maxTotal), maxTotal),
                           maxTotal),
                         maxTotal)
         IN [i \in 1..Len(billableItems) |->
               [lineItemId |-> billableItems[i].id,
                newCustomsValue |-> toFixed2(values[i]),
                isComplimentary |-> FALSE]]

\* lineItems: sequence of [id, price]; weights: a weight for every position
\* of the billable sub-sequence (generateRandomWeight, one draw per item)
distributeCustomsValues(lineItems, maxTotal, weights) ==
  LET billableItems == SelectSeq(lineItems, LAMBDA it : isBillablePrice(it.price))
      complimentaryItems == SelectSeq(lineItems,
                                      LAMBDA it : isComplimentaryPrice(it.price))
      zero(items) == [i \in 1..Len(items) |->
                        [lineItemId |-> items[i].id,
                         newCustomsValue |-> 0,
                         isComplimentary |-> TRUE]]
  IN IF Len(lineItems) = 0 THEN <<>>
     ELSE IF Len(billableItems) = 0 THEN zero(lineItems)
     ELSE distributeBillableItems(billableItems, maxTotal,
                                  SubSeq(weights, 1, Len(billableItems)))
          \o zero(complimentaryItems)

\* sum of the values of the non-complimentary entries of a distribution
billableTotal(distribution) ==
  SumSeq([i \in 1..Len(distribution) |->
            IF distribution[i].isComplimentary THEN 0
            ELSE distribution[i].newCustomsValue])

\* validateDistribution: the errors it collects; valid when there are none
validateDistribution(distribution, maxTotal) ==
  LET total == billableTotal(distribution)
      entries == {distribution[i] : i \in 1..Len(distribution)}
      errors ==
        (IF total > maxTotal + ROUNDING_TOLERANCE THEN {"exceeds_maximum_total"} ELSE {})
        \cup (IF \E d \in entries : d.isComplimentary /\ d.newCustomsValue # 0
               THEN {"complimentary_non_zero"} ELSE {})
        \cup (IF \E d \in entries : /\ ~d.isComplimentary
                                     /\ d.newCustomsValue < MIN_ITEM_VALUE - ROUNDING_TOLERANCE
               THEN {"below_minimum"} ELSE {})
        \cup (IF \E d \in entries : /\ ~d.isComplimentary
                                     /\ d.newCustomsValue > MAX_ITEM_VALUE + ROUNDING_TOLERANCE
               THEN {"exceeds_maximum"} ELSE {})
  IN [valid |-> errors = {}, errors |-> errors]

\* ------------------------------------------------------------------ state
VARIABLES
  dist,        \* a distributeCustomsValues call: its inputs and its output
  config,      \* lib/config.ts: the env-derived configuration of the deployment
  now,         \* Date.now(), in milliseconds
  quota,       \* the QuotaManager singleton; requestTimestamps is kept as
               \* runs [at, count]: count requests tracked at millisecond at
  remoteTags,  \* ShipHero: ids of the orders carrying the processed tag
  remoteCustoms, \* ShipHero: order id -> customs total last applied (0: none)
  cursorRow,   \* processing_cursor row 'main': [exists, lastProcessedDate]
  batchRuns,   \* batch_runs rows: run -> NoRow or [status, updates]
  run,         \* the local state of each route invocation
  sent,        \* history: the mutations sent so far
  faults,      \* adverse collaborator responses the environment may still give
  call,        \* the latest direct call of a QuotaManager method and its result
  gen,         \* a fetchAllOrders generator and the requests it has made
  client,      \* a ShipHeroClient.request call and the attempts it has made
  auth         \* the ShipHeroAuth singleton and the callers waiting on it

vars == << client, auth, gen, call, dist, config, now, quota, remoteTags, remoteCustoms, cursorRow,
           batchRuns, run, sent, faults >>

NoRow == "no_row"
NoCursor == [exists |-> FALSE, lastProcessedDate |-> 0]
\* calculateEffectiveMaxTotal's null (every real cap is positive)
Null == 0 - 1

\* ------------------------------------------------------ more program constants
MAX_CREDITS == 4004
REPLENISH_RATE == 60
MIN_CREDITS_BUFFER == 100
MAX_REQUESTS_PER_WINDOW == 7000
REQUEST_WINDOW_MS == 300000
MIN_REQUESTS_BUFFER == 100
ESTIMATED_COST == 50
MAX_WAIT_MS == 120000
ONE_DAY == 86400000
DEFAULT_MAX_RETRIES == 3
DEFAULT_RETRY_DELAY == 1000

\* ------------------------------------------------------------ more bounds
MaxRuns == 2
PageLen == 1
\* adverse collaborator responses in one behaviour: a failure of the
\* database or of ShipHero, or an extreme complexity reported by ShipHero
MaxFaults == 2
\* the same, for behaviours with overlapping invocations
MaxOverlapFaults == 1

\* direct QuotaManager calls in one behaviour
MaxCalls == 5
\* page requests of one fetchAllOrders call, and pages the source holds
MaxRequests == 4
MaxPages == 3
\* interleaved callers of one ShipHeroAuth instance, and refreshes it starts
MaxCallers == 3
MaxRefreshes == 2

\* --------------------------------------------------------------- inputs
Runs == 1..MaxRuns
\* for the direct QuotaManager calls: milliseconds between two calls, requests
\* tracked within one millisecond, reported complexities and balances, and
\* estimated costs
ClockSteps == {10, 4000, 150000}
Bursts == {1, 6900}
ReportedCosts == {0, 100, 3900}
ReportedBalances == {Null, 3500}
EstimatedCosts == {100, 200}
MaxWaits == {1000, MAX_WAIT_MS}
TargetCountry == "TR"
Statuses == << "Vacier", "Unfulfilled" >>
\* PROCESSING_START_DATE, and the clock at the first invocation
StartDate == 7 * ONE_DAY
T0 == 10 * ONE_DAY
\* complexity ShipHero reports for a mutation, and the extreme complexity it
\* may report for a line-item update
NormalCost == 50
ExtremeCost == 11130
\* milliseconds a page request takes
Latency == {1000}
Prices == {0, 20000}
Totals == {0 - 5000, 0, 1000, 30000}
MaxCustomsValues == {1000, DEFAULT_MAX_TOTAL}

ItemLists ==
  UNION {[1..n -> Prices] : n \in 0..MaxItems}

\* the price strings handed to distributeCustomsValues directly
DistPrices == Prices \cup {0 - 1000, NoPrice, NaN}
DistItemLists ==
  UNION {[1..n -> DistPrices] : n \in 0..MaxItems}

mkItems(prices) == [i \in 1..Len(prices) |-> [id |-> i, price |-> prices[i]]]

\* the orders ShipHero holds (everything but their tags, which change)
OrderIds == {1, 2, 3}
Catalogue ==
  [id \in OrderIds |->
     CASE id = 1 -> [id |-> 1, hasAddress |-> TRUE, country |-> "TR",
                     items |-> mkItems(<<20000>>), total |-> 30000,
                     date |-> 8 * ONE_DAY, status |-> "Vacier"]
       [] id = 2 -> [id |-> 2, hasAddress |-> TRUE, country |-> "TR",
                     items |-> mkItems(<<20000, 20000>>), total |-> 30000,
                     date |-> 9 * ONE_DAY, status |-> "Vacier"]
       [] id = 3 -> [id |-> 3, hasAddress |-> TRUE, country |-> "TR",
                     items |-> mkItems(<<20000, 0>>), total |-> 30000,
                     date |-> 12 * ONE_DAY, status |-> "Unfulfilled"]]

\* variant: the query result never shows the processed tag
snapshot_untagged(id, tags) ==
  [id |-> id, hasAddress |-> Catalogue[id].hasAddress,
   country |-> Catalogue[id].country, tagged |-> FALSE,
   items |-> Catalogue[id].items, total |-> Catalogue[id].total,
   date |-> Catalogue[id].date, status |-> Catalogue[id].status]

\* an order as a query returns it: the catalogue entry with its tag state
snapshot(id, tags) ==
  [id |-> id, hasAddress |-> Catalogue[id].hasAddress,
   country |-> Catalogue[id].country, tagged |-> id \in tags,
   items |-> Catalogue[id].items, total |-> Catalogue[id].total,
   date |-> Catalogue[id].date, status |-> Catalogue[id].status]

\* -------------------------------------------------------- lib/shiphero/quota
InitQuota ==
  [remainingCredits |-> MAX_CREDITS, lastUpdateTime |-> T0,
   totalCreditsUsed |-> 0, requestTimestamps |-> <<>>]

\* variant: the running total survives the reset
reset_keepsTotal(q, t) ==
  [remainingCredits |-> MAX_CREDITS, lastUpdateTime |-> t,
   totalCreditsUsed |-> q.totalCreditsUsed, requestTimestamps |-> <<>>]

reset(q, t) ==
  [remainingCredits |-> MAX_CREDITS, lastUpdateTime |-> t,
   totalCreditsUsed |-> 0, requestTimestamps |-> <<>>]

\* number of entries of an array of timestamps kept as runs
RECURSIVE countOf(_)
countOf(stamps) ==
  IF stamps = <<>> THEN 0 ELSE Head(stamps).count + countOf(Tail(stamps))

\* variant: a timestamp exactly one window old is still kept
inWindow_inclusive(stamps, t) ==
  SelectSeq(stamps, LAMBDA s : s.at >= t - REQUEST_WINDOW_MS)

\* requestTimestamps.filter((timestamp) => timestamp > windowStart)
inWindow(stamps, t) ==
  SelectSeq(stamps, LAMBDA s : s.at > t - REQUEST_WINDOW_MS)

\* n consecutive trackRequest() calls within the millisecond t
trackRequests(q, t, n) ==
  LET kept == inWindow(q.requestTimestamps, t)
  IN [q EXCEPT !.requestTimestamps =
        IF kept # <<>> /\ kept[Len(kept)].at = t
          THEN [kept EXCEPT ![Len(kept)].count = @ + n]
          ELSE Append(kept, [at |-> t, count |-> n])]

trackRequest(q, t) == trackRequests(q, t, 1)

getRequestsInWindow(q, t) == countOf(inWindow(q.requestTimestamps, t))

canMakeRequest(q, t) ==
  IF MAX_REQUESTS_PER_WINDOW - getRequestsInWindow(q, t) > MIN_REQUESTS_BUFFER
    THEN [ok |-> TRUE, waitMs |-> 0, reason |-> "none"]
    ELSE IF countOf(q.requestTimestamps) > 0
      THEN [ok |-> FALSE,
            waitMs |-> Max2(0, q.requestTimestamps[1].at + REQUEST_WINDOW_MS - t),
            reason |-> "request_limit"]
      ELSE [ok |-> TRUE, waitMs |-> 0, reason |-> "none"]

\* updateFromResponse(complexity) without a server-reported balance
updateFromResponse(q, complexity, t) ==
  LET replenished == ((t - q.lastUpdateTime) * REPLENISH_RATE) \div 1000
  IN [q EXCEPT
        !.remainingCredits = Min2(MAX_CREDITS, q.remainingCredits - complexity + replenished),
        !.totalCreditsUsed = q.totalCreditsUsed + complexity,
        !.lastUpdateTime = t]

\* variant: the wait is rounded down instead of up
waitSecondsFor_floor(creditsNeeded) ==
  creditsNeeded \div REPLENISH_RATE

\* variant: the server-reported balance is ignored
updateFromResponseServer_estimates(q, complexity, remaining, t) ==
  updateFromResponse(q, complexity, t)

\* updateFromResponse(complexity, remaining): remaining = Null when absent
updateFromResponseServer(q, complexity, remaining, t) ==
  IF remaining # Null
    THEN [q EXCEPT
            !.remainingCredits = remaining,
            !.totalCreditsUsed = q.totalCreditsUsed + complexity,
            !.lastUpdateTime = t]
    ELSE updateFromResponse(q, complexity, t)

\* ceil(creditsNeeded / REPLENISH_RATE), in seconds
waitSecondsFor(creditsNeeded) ==
  (creditsNeeded + REPLENISH_RATE - 1) \div REPLENISH_RATE

\* variant: the credits are checked before the request window
canProceed_creditsFirst(q, estimatedCost, t) ==
  LET requestCheck == canMakeRequest(q, t)
      replenished == ((t - q.lastUpdateTime) * REPLENISH_RATE) \div 1000
      currentCredits == Min2(MAX_CREDITS, q.remainingCredits + replenished)
      requiredCredits == estimatedCost + MIN_CREDITS_BUFFER
  IN IF currentCredits < requiredCredits
       THEN [ok |-> FALSE,
             waitMs |-> waitSecondsFor(requiredCredits - currentCredits) * 1000,
             reason |-> "insufficient_credits"]
     ELSE IF ~requestCheck.ok THEN requestCheck
     ELSE [ok |-> TRUE, waitMs |-> 0, reason |-> "none"]

canProceed(q, estimatedCost, t) ==
  LET requestCheck == canMakeRequest(q, t)
      replenished == ((t - q.lastUpdateTime) * REPLENISH_RATE) \div 1000
      currentCredits == Min2(MAX_CREDITS, q.remainingCredits + replenished)
      requiredCredits == estimatedCost + MIN_CREDITS_BUFFER
  IN IF ~requestCheck.ok THEN requestCheck
     ELSE IF currentCredits >= requiredCredits
       THEN [ok |-> TRUE, waitMs |-> 0, reason |-> "none"]
       ELSE [ok |-> FALSE,
             waitMs |-> waitSecondsFor(requiredCredits - currentCredits) * 1000,
             reason |-> "insufficient_credits"]

\* variant: sleeps for any known wait, however long
waitForCreditsDecision_unbounded(q, estimatedCost, maxWaitMs, t) ==
  LET check == canProceed(q, estimatedCost, t)
  IN IF check.ok THEN "true"
     ELSE IF check.waitMs = 0 THEN "false"
     ELSE "sleep"

\* waitForCredits up to its sleep: "true" (no wait needed), "false" (the wait
\* is absent or exceeds maxWaitMs) or "sleep" (it will sleep check.waitMs)
waitForCreditsDecision(q, estimatedCost, maxWaitMs, t) ==
  LET check == canProceed(q, estimatedCost, t)
  IN IF check.ok THEN "true"
     ELSE IF check.waitMs = 0 \/ check.waitMs > maxWaitMs THEN "false"
     ELSE "sleep"

\* ------------------------------------------------------------ lib/db/cursor
\* variant: the earliest processed date instead of the latest
getLatestOrderDate_earliest(dates, t) ==
  LET latest == CHOOSE d \in dates : \A e \in dates : d <= e
  IN IF latest > t + ONE_DAY THEN t ELSE latest

\* variant: no safety check on dates in the future
capToNow_never(latest, t) == latest

\* if (latest > oneDayFromNow) return now; return latest
capToNow(latest, t) == IF latest > t + ONE_DAY THEN t ELSE latest

\* Math.max over the processed order dates, capped to now when it lies more
\* than one day in the future; the current time for an empty list
getLatestOrderDate(dates, t) ==
  IF dates = {} THEN t
  ELSE LET latest == CHOOSE d \in dates : \A e \in dates : e <= d
       IN capToNow(latest, t)

\* UPDATE ... SET lastProcessedDate = newDate (INSERT when there is no row)
updateProcessingCursor(row, newDate) ==
  [exists |-> TRUE, lastProcessedDate |-> newDate]

\* INSERT INTO processing_cursor: fails on a database error and, because
\* cursor_name is UNIQUE, when a row with the name is already stored
insertSucceeds(row, ok) == ok /\ ~row.exists

\* variant: the start date is returned but no row is stored
getProcessingCursor_notPersisted(row) ==
  IF row.exists
    THEN [date |-> row.lastProcessedDate, row |-> row]
    ELSE [date |-> StartDate, row |-> row]

\* getProcessingCursor: the stored date, or the configured start date, which
\* it then inserts
getProcessingCursor(row) ==
  IF row.exists
    THEN [date |-> row.lastProcessedDate, row |-> row]
    ELSE [date |-> StartDate, row |-> [exists |-> TRUE, lastProcessedDate |-> StartDate]]

\* ------------------------------------------------------ lib/shiphero/orders
hasBillableItems(order) ==
  \E i \in 1..Len(order.items) : isBillablePrice(order.items[i].price)

\* variant: the tag is never recognised
hasTag_never(order) == FALSE

hasTag(order) == order.tagged

getBillableLineItems(order) ==
  SelectSeq(order.items, LAMBDA it : isBillablePrice(it.price))

\* ------------------------------------------------------ lib/processor/order
\* variant: only a negative total signals a skip
calculateEffectiveMaxTotal_negativeOnly(order, defaultMaxTotal) ==
  IF order.total < 0 THEN Null
  ELSE IF order.total < defaultMaxTotal THEN order.total
  ELSE defaultMaxTotal

calculateEffectiveMaxTotal(order, defaultMaxTotal) ==
  IF order.total <= 0 THEN Null
  ELSE IF order.total < defaultMaxTotal THEN order.total
  ELSE defaultMaxTotal

\* variant: the tag check comes before the address and country checks
skipReason_tagFirst(order, cfg) ==
  IF hasTag(order) THEN "already_tagged"
  ELSE IF ~order.hasAddress THEN "missing_address"
  ELSE IF order.country # TargetCountry THEN "not_turkey"
  ELSE IF ~hasBillableItems(order) THEN "no_billable_items"
  ELSE IF calculateEffectiveMaxTotal(order, cfg.maxCustomsValue) = Null
    THEN "zero_or_negative_total"
  ELSE "none"

\* the validations of processOrder, in the order of the code; "none" when
\* the order passes all of them
skipReason(order, cfg) ==
  IF ~order.hasAddress THEN "missing_address"
  ELSE IF order.country # TargetCountry THEN "not_turkey"
  ELSE IF hasTag(order) THEN "already_tagged"
  ELSE IF ~hasBillableItems(order) THEN "no_billable_items"
  ELSE IF calculateEffectiveMaxTotal(order, cfg.maxCustomsValue) = Null
    THEN "zero_or_negative_total"
  ELSE "none"

\* variant: the distribution is never rejected
exceedsOrderTotal_never(distribution, order) == FALSE

\* total > orderTotal + 0.01: the distribution is rejected with an Error
exceedsOrderTotal(distribution, order) ==
  billableTotal(distribution) > order.total + ROUNDING_TOLERANCE

\* variant: the update flag alone decides
sendsUpdate_ignoresDryRun(cfg) == cfg.enableCustomsUpdate

sendsUpdate(cfg) == ~cfg.dryRun /\ cfg.enableCustomsUpdate
sendsTag(cfg) == ~cfg.dryRun /\ cfg.enableTagging

\* ------------------------------------------- app/api/cron/customs-update/route
\* variant: disabled tagging is a warning that leaves the configuration valid
validateConfiguration_warningOnly(cfg) == TRUE

\* no errors: the tagging warning is pushed onto errors unless dry-run is on
\* (both fulfillment statuses are enabled in the deployments modelled)
validateConfiguration(cfg) == cfg.enableTagging \/ cfg.dryRun

\* the checks of the route in their order; authorized: no secret is
\* configured or the authorization header equals "Bearer <secret>"
routeResponse(cfg, authorized) ==
  IF ~authorized THEN "401"
  ELSE IF ~validateConfiguration(cfg) THEN "500"
  ELSE IF ~cfg.enableCustomsUpdate /\ ~cfg.dryRun THEN "disabled"
  ELSE "batch"

\* variant: the route does not look at enableCustomsUpdate
routeAdmits_anyUpdateFlag(cfg, authorized) ==
  /\ authorized
  /\ validateConfiguration(cfg)

\* the route reaches processBatch
routeAdmits(cfg, authorized) ==
  /\ authorized
  /\ validateConfiguration(cfg)
  /\ (cfg.enableCustomsUpdate \/ cfg.dryRun)

\* the outcomes a collaborator call may have: FALSE is a failure
Outcomes == IF faults > 0 THEN {TRUE, FALSE} ELSE {TRUE}
UpdateCosts == IF faults > 0 THEN {NormalCost, ExtremeCost} ELSE {NormalCost}
TagCosts == {NormalCost}
PageCosts == {NormalCost}
failed(ok) == faults - (IF ok THEN 0 ELSE 1)

\* ------------------------------------------------------- local state of a run
NoOrder ==
  [id |-> 0, hasAddress |-> FALSE, country |-> "", tagged |-> FALSE,
   items |-> <<>>, total |-> 0, date |-> 0, status |-> ""]

NoException ==
  [raised |-> FALSE, ordersQueried |-> 0, ordersProcessed |-> 0, ordersSkipped |-> 0,
   errorsCount |-> 0, errorDetails |-> <<>>, creditsUsed |-> 0]

NoResult == [orderId |-> 0, status |-> "none", reason |-> "none", creditsUsed |-> 0]

IdleRun ==
  [pc |-> "idle",
   processingStartDate |-> 0,  \* orderDateFrom of the run's queries
   cursorRead |-> "none",      \* "row", "initialised" or "fallback"
   statusIdx |-> 1,            \* position in getFulfillmentStatuses()
   pageNo |-> 1,               \* the page the generator requests next
   hasNextPage |-> FALSE,      \* pageInfo.hasNextPage of the last page
   page |-> <<>>,              \* orderBatch
   idx |-> 1,                  \* position in orderBatch
   order |-> NoOrder,          \* the order inside processOrder
   distribution |-> <<>>,
   credits |-> 0,              \* creditsUsed of the processOrder call
   processedDates |-> {},      \* order_date of processedOrders
   ordersQueried |-> 0, ordersProcessed |-> 0, ordersSkipped |-> 0,
   errorsCount |-> 0, errorDetails |-> <<>>, creditsUsed |-> 0,
   status |-> "running",
   lastResult |-> NoResult,    \* the last ProcessingResult
   wakeAt |-> 0,               \* end of the sleep of waitForCredits
   \* history
   checkOk |-> TRUE,           \* ok of the latest canProceed evaluation
   slept |-> FALSE,            \* waitForCredits slept for the current order
   refused |-> FALSE,          \* the throttle refused an order of this run
   handledAtRefusal |-> 0,     \* orders handled when it first refused
   cursorAttempt |-> "none",   \* updateProcessingCursor: "none", "ok", "failed"
   remoteCost |-> 0,           \* reported complexity of every remote call
   pageRequests |-> 0,         \* client.request calls of fetchAllOrders
   fetchFailed |-> FALSE,      \* fetchAllOrders threw
   authorized |-> FALSE,       \* the request carried the expected secret
   response |-> "none",        \* what the route did: "401", "500", "disabled", "batch"
   caught |-> NoException]     \* the counters when the catch block was entered

handled(rec) == rec.ordersProcessed + rec.ordersSkipped + rec.errorsCount

\* ------------------------------------------------------ lib/shiphero/orders
\* ids of the orders matching fulfillment_status and order_date_from, in
\* the order ShipHero pages them
matching(status, dateFrom) ==
  {id \in OrderIds : Catalogue[id].status = status /\ Catalogue[id].date >= dateFrom}

RECURSIVE sortedIds(_)
sortedIds(ids) ==
  IF ids = {} THEN <<>>
  ELSE LET m == CHOOSE i \in ids : \A j \in ids : i <= j
       IN <<m>> \o sortedIds(ids \ {m})

pageOf(status, dateFrom, pageNo) ==
  LET all == sortedIds(matching(status, dateFrom))
      first == (pageNo - 1) * PageLen + 1
      last == Min2(pageNo * PageLen, Len(all))
  IN [ids |-> IF first > Len(all) THEN <<>> ELSE SubSeq(all, first, last),
      hasNextPage |-> pageNo * PageLen < Len(all)]

\* fetchAllOrders after the consumer is done with a page: the generator ends
\* when the page was the last one, and processBatch moves to the next status
afterPage(rec) ==
  IF rec.hasNextPage
    THEN [rec EXCEPT !.pc = "fetch", !.pageNo = @ + 1]
    ELSE IF rec.statusIdx < Len(Statuses)
      THEN [rec EXCEPT !.pc = "fetch", !.statusIdx = @ + 1, !.pageNo = 1]
      ELSE [rec EXCEPT !.pc = "finish"]

\* ------------------------------------------------------ lib/processor/batch
\* variant: the orders of a page are not counted
countQueried_never(ordersQueried, orderBatch) == ordersQueried

\* result.ordersQueried += orderBatch.length
countQueried(ordersQueried, orderBatch) == ordersQueried + Len(orderBatch)

\* variant: an error result is not counted
accountResult_dropsError(rec, status, reason, creditsUsed) ==
  [rec EXCEPT
     !.pc = "next",
     !.idx = @ + 1,
     !.lastResult = [orderId |-> rec.order.id, status |-> status,
                     reason |-> reason, creditsUsed |-> creditsUsed],
     !.processedDates = IF status = "processed" THEN @ \cup {rec.order.date} ELSE @,
     !.ordersProcessed = IF status = "processed" THEN @ + 1 ELSE @,
     !.ordersSkipped = IF status = "skipped" THEN @ + 1 ELSE @,
     !.creditsUsed = @ + creditsUsed]

\* processBatch after processOrder returned: quota update, cursor tracking,
\* counters (the quota update itself is in the calling action)
accountResult(rec, status, reason, creditsUsed) ==
  [rec EXCEPT
     !.pc = "next",
     !.idx = @ + 1,
     !.lastResult = [orderId |-> rec.order.id, status |-> status,
                     reason |-> reason, creditsUsed |-> creditsUsed],
     !.processedDates = IF status = "processed" THEN @ \cup {rec.order.date} ELSE @,
     !.ordersProcessed = IF status = "processed" THEN @ + 1 ELSE @,
     !.ordersSkipped = IF status = "skipped" THEN @ + 1 ELSE @,
     !.errorsCount = IF status = "error" THEN @ + 1 ELSE @,
     !.errorDetails = IF status = "error" THEN Append(@, rec.order.id) ELSE @,
     !.creditsUsed = @ + creditsUsed]

\* variant: the row is created with a terminal status
newRunRow_completed ==
  [status |-> "completed", updates |-> 0, ordersQueried |-> 0, ordersProcessed |-> 0,
   ordersSkipped |-> 0, errorsCount |-> 0, errorDetails |-> <<>>, creditsUsed |-> 0]

\* the row of db.insert(batchRuns).values({...})
newRunRow ==
  [status |-> "running", updates |-> 0, ordersQueried |-> 0, ordersProcessed |-> 0,
   ordersSkipped |-> 0, errorsCount |-> 0, errorDetails |-> <<>>, creditsUsed |-> 0]

\* the row after db.update(batchRuns).set({...}) in the finally block
summaryRow(rec, row) ==
  [status |-> rec.status, updates |-> row.updates + 1,
   ordersQueried |-> rec.ordersQueried, ordersProcessed |-> rec.ordersProcessed,
   ordersSkipped |-> rec.ordersSkipped, errorsCount |-> rec.errorsCount,
   errorDetails |-> rec.errorDetails, creditsUsed |-> rec.creditsUsed]

\* variant: the catch block clears the counters
catchBlock_resets(rec) ==
  [rec EXCEPT
     !.pc = "save",
     !.status = "failed",
     !.ordersQueried = 0, !.ordersProcessed = 0, !.ordersSkipped = 0,
     !.errorsCount = 0, !.errorDetails = <<>>, !.creditsUsed = 0,
     !.caught = [raised |-> TRUE, ordersQueried |-> rec.ordersQueried,
                 ordersProcessed |-> rec.ordersProcessed,
                 ordersSkipped |-> rec.ordersSkipped,
                 errorsCount |-> rec.errorsCount,
                 errorDetails |-> rec.errorDetails,
                 creditsUsed |-> rec.creditsUsed]]

\* the catch block of processBatch: status failed, then the finally block
catchBlock(rec) ==
  [rec EXCEPT
     !.pc = "save",
     !.status = "failed",
     !.caught = [raised |-> TRUE, ordersQueried |-> rec.ordersQueried,
                 ordersProcessed |-> rec.ordersProcessed,
                 ordersSkipped |-> rec.ordersSkipped,
                 errorsCount |-> rec.errorsCount,
                 errorDetails |-> rec.errorDetails,
                 creditsUsed |-> rec.creditsUsed]]

\* variant: the failed filter is given up and the next status is queried
afterFetchError_nextFilter(rec) ==
  afterPage([rec EXCEPT !.fetchFailed = TRUE, !.hasNextPage = FALSE])

\* fetchAllOrders logs the error and rethrows it; `for await` passes it on
\* to the catch block of processBatch
afterFetchError(rec) ==
  catchBlock([rec EXCEPT !.fetchFailed = TRUE])

\* variant: the fallback is the current time
fallbackStartDate_now == T0

\* processingStartDate when getProcessingCursor throws
fallbackStartDate == StartDate

\* variant: the cursor update is never attempted
attemptsCursorUpdate_never(rec) == FALSE

\* if (processedOrders.length > 0): the cursor update is attempted
attemptsCursorUpdate(rec) == rec.processedDates # {}

\* variant: a failing update loses the stored row
cursorAfterAttempt_partial(row, newDate, ok) ==
  IF ok THEN updateProcessingCursor(row, newDate) ELSE NoCursor

\* the stored row after await updateProcessingCursor(...), which either
\* writes the row or throws without writing
cursorAfterAttempt(row, newDate, ok) ==
  IF ok THEN updateProcessingCursor(row, newDate) ELSE row

\* ---- the latest QuotaManager call, kept for the properties
\* `tracked` lists every trackRequest since the last reset; `maxWaitMs`,
\* `returned`, `sleeps` and `slept` describe a waitForCredits call
NoCall ==
  [n |-> 0, op |-> "none", cost |-> 0, remaining |-> Null, at |-> 0,
   before |-> InitQuota, result |-> [ok |-> TRUE, waitMs |-> 0, reason |-> "none"],
   tracked |-> <<>>, maxWaitMs |-> 0, returned |-> FALSE, sleeps |-> 0, slept |-> 0]

called(op, cost, remaining, result) ==
  [n |-> call.n + 1, op |-> op, cost |-> cost, remaining |-> remaining, at |-> now,
   before |-> quota, result |-> result,
   tracked |-> call.tracked, maxWaitMs |-> 0, returned |-> FALSE, sleeps |-> 0,
   slept |-> 0]

\* GET /api/cron/customs-update up to the creation of the batch_runs row:
\* the route's checks, then quotaManager.reset() and getProcessingCursor().
\* exclusive: no other invocation is in progress (non-overlapping schedule)
GET(r, exclusive) ==
  /\ run[r].pc = "idle"
  /\ IF r = 1 THEN TRUE ELSE run[r - 1].pc # "idle"
  /\ exclusive => \A q \in Runs \ {r} : run[q].pc \in {"idle", "done", "rejected"}
  /\ \E authorized \in BOOLEAN, readOk \in Outcomes :
       IF ~routeAdmits(config, authorized)
         THEN /\ run' = [run EXCEPT ![r].pc = "rejected",
                                      ![r].authorized = authorized,
                                      ![r].response = routeResponse(config, authorized)]
              /\ UNCHANGED << call, quota, cursorRow, faults >>
         ELSE /\ quota' = reset(quota, now)
              /\ call' = [called("reset", 0, Null, NoCall.result) EXCEPT
                            !.n = call.n, !.tracked = << >>]
              /\ faults' = failed(readOk)
              /\ cursorRow' = cursorRow
              /\ run' = [run EXCEPT
                   ![r].authorized = authorized,
                   ![r].response = routeResponse(config, authorized),
                   ![r].pc = IF readOk /\ ~cursorRow.exists THEN "init_cursor"
                             ELSE "insert",
                   ![r].cursorRead = IF ~readOk THEN "fallback"
                                     ELSE IF ~cursorRow.exists THEN "none"
                                     ELSE "row",
                   ![r].processingStartDate =
                       IF ~readOk THEN fallbackStartDate
                       ELSE IF ~cursorRow.exists THEN Null
                       ELSE getProcessingCursor(cursorRow).date]
  /\ UNCHANGED << client, auth, gen, dist, config, now, remoteTags, remoteCustoms, batchRuns, sent >>

\* getProcessingCursor after its SELECT found no row: the INSERT of the
\* configured start date.  cursor_name is UNIQUE, so the INSERT throws when
\* another invocation has stored the row since the SELECT; processBatch
\* catches whatever getProcessingCursor throws and falls back
InitCursor(r) ==
  /\ run[r].pc = "init_cursor"
  /\ \E ok \in Outcomes :
       LET inserted == insertSucceeds(cursorRow, ok)
       IN /\ faults' = failed(ok)
          /\ cursorRow' = IF inserted THEN getProcessingCursor(cursorRow).row
                          ELSE cursorRow
          /\ run' = [run EXCEPT
               ![r].pc = "insert",
               ![r].cursorRead = IF inserted THEN "initialised" ELSE "fallback",
               ![r].processingStartDate =
                   IF inserted THEN getProcessingCursor(cursorRow).date
                   ELSE fallbackStartDate]
  /\ UNCHANGED << client, auth, gen, call, dist, config, now, quota, remoteTags, remoteCustoms, batchRuns, sent >>

\* db.insert(batchRuns): a failure is caught by processBatch (status failed)
CreateRun(r) ==
  /\ run[r].pc = "insert"
  /\ \E ok \in Outcomes :
       /\ faults' = failed(ok)
       /\ IF ok
            THEN /\ batchRuns' = [batchRuns EXCEPT ![r] = newRunRow]
                 /\ run' = [run EXCEPT ![r].pc = "fetch"]
            ELSE /\ batchRuns' = batchRuns
                 /\ run' = [run EXCEPT ![r] = catchBlock(run[r])]
  /\ UNCHANGED << client, auth, gen, call, dist, config, now, quota, remoteTags, remoteCustoms, cursorRow, sent >>

\* one page request of fetchAllOrders; an error propagates to processBatch
FetchPage(r) ==
  /\ run[r].pc = "fetch"
  /\ \E dt \in Latency, ok \in Outcomes, complexity \in PageCosts :
       /\ now' = now + dt
       /\ faults' = failed(ok)
       /\ IF ~ok
            THEN run' = [run EXCEPT ![r] =
                           afterFetchError([run[r] EXCEPT !.pageRequests = @ + 1])]
            ELSE LET rec == [run[r] EXCEPT !.pageRequests = @ + 1,
                                           !.remoteCost = @ + complexity]
                     pg == pageOf(Statuses[rec.statusIdx], rec.processingStartDate,
                                  rec.pageNo)
                 IN IF Len(pg.ids) = 0
                      THEN run' = [run EXCEPT ![r] =
                                     afterPage([rec EXCEPT !.hasNextPage = FALSE])]
                      ELSE run' = [run EXCEPT ![r] =
                             [rec EXCEPT
                                !.pc = "next",
                                !.page = [i \in 1..Len(pg.ids) |->
                                            snapshot(pg.ids[i], remoteTags)],
                                !.hasNextPage = pg.hasNextPage,
                                !.idx = 1,
                                !.ordersQueried = countQueried(@, pg.ids)]]
  /\ UNCHANGED << client, auth, gen, call, dist, config, quota, remoteTags, remoteCustoms, cursorRow,
                  batchRuns, sent >>

\* head of `for (const order of orderBatch)`: the quota check before an order
NextOrder(r) ==
  /\ run[r].pc = "next"
  /\ LET rec == run[r]
         quotaCheck == canProceed(quota, ESTIMATED_COST, now)
         decision == waitForCreditsDecision(quota, ESTIMATED_COST, MAX_WAIT_MS, now)
         begin == [rec EXCEPT !.pc = "order", !.order = rec.page[rec.idx],
                              !.credits = 0, !.distribution = <<>>,
                              !.checkOk = quotaCheck.ok, !.slept = FALSE]
         stop == afterPage([rec EXCEPT
                              !.checkOk = FALSE,
                              !.handledAtRefusal = IF rec.refused THEN @ ELSE handled(rec),
                              !.refused = TRUE])
     IN IF rec.idx > Len(rec.page) THEN run' = [run EXCEPT ![r] = afterPage(rec)]
        ELSE IF quotaCheck.ok THEN run' = [run EXCEPT ![r] = begin]
        ELSE IF quotaCheck.waitMs # 0
          THEN CASE decision = "true" -> run' = [run EXCEPT ![r] = begin]
                 [] decision = "false" -> run' = [run EXCEPT ![r] = stop]
                 [] decision = "sleep" ->
                      run' = [run EXCEPT ![r] =
                                [rec EXCEPT !.pc = "sleep", !.checkOk = FALSE,
                                            !.wakeAt = now + quotaCheck.waitMs]]
          ELSE run' = [run EXCEPT ![r] = stop]
  /\ UNCHANGED << client, auth, gen, call, dist, config, now, quota, remoteTags, remoteCustoms, cursorRow,
                  batchRuns, sent, faults >>

\* waitForCredits after its sleep: refresh the estimate and return true
Wake(r) ==
  /\ run[r].pc = "sleep"
  /\ now' = Max2(now, run[r].wakeAt)
  /\ quota' = updateFromResponse(quota, 0, now')
  /\ run' = [run EXCEPT ![r].pc = "order", ![r].order = run[r].page[run[r].idx],
                        ![r].credits = 0, ![r].distribution = <<>>,
                        ![r].slept = TRUE]
  /\ UNCHANGED << client, auth, gen, call, dist, config, remoteTags, remoteCustoms, cursorRow, batchRuns,
                  sent, faults >>

\* processOrder up to its first await: validation and allocation
OrderBegin(r) ==
  /\ run[r].pc = "order"
  /\ LET rec == run[r]
         order == rec.order
         reason == skipReason(order, config)
         billable == getBillableLineItems(order)
     IN IF reason # "none"
          THEN /\ run' = [run EXCEPT ![r] = accountResult(rec, "skipped", reason, 0)]
               /\ quota' = updateFromResponse(quota, 0, now)
          ELSE \E weights \in [1..Len(billable) -> 1..MaxWeight] :
                 LET distribution == distributeCustomsValues(
                                       billable,
                                       calculateEffectiveMaxTotal(order, config.maxCustomsValue),
                                       weights)
                 IN IF exceedsOrderTotal(distribution, order)
                      THEN /\ run' = [run EXCEPT ![r] =
                                        accountResult(rec, "error", "exceeds_order_total", 0)]
                           /\ quota' = updateFromResponse(quota, 0, now)
                    ELSE IF sendsUpdate(config)
                      THEN /\ run' = [run EXCEPT ![r].pc = "update",
                                                 ![r].distribution = distribution]
                           /\ quota' = quota
                    ELSE IF sendsTag(config)
                      THEN /\ run' = [run EXCEPT ![r].pc = "tag",
                                                 ![r].distribution = distribution]
                           /\ quota' = quota
                    ELSE /\ run' = [run EXCEPT ![r] = accountResult(rec, "processed", "none", 0)]
                         /\ quota' = updateFromResponse(quota, 0, now)
  /\ UNCHANGED << client, auth, gen, call, dist, config, now, remoteTags, remoteCustoms, cursorRow, batchRuns,
                  sent, faults >>

\* await updateLineItemsCustomsValue(...): ShipHero applies the update and
\* reports its complexity, or the call throws (user error, transport error)
SendUpdate(r) ==
  /\ run[r].pc = "update"
  /\ LET rec == run[r]
         total == billableTotal(rec.distribution)
     IN \E ok \in Outcomes, complexity \in UpdateCosts :
          /\ ~ok => complexity = NormalCost
          /\ faults' = failed(ok /\ complexity = NormalCost)
          /\ sent' = sent \cup {[run |-> r, order |-> rec.order.id, kind |-> "update",
                                 total |-> total, orderTotal |-> rec.order.total,
                                 ok |-> ok]}
          /\ IF ok
               THEN /\ remoteCustoms' = [remoteCustoms EXCEPT ![rec.order.id] = total]
                    /\ IF sendsTag(config)
                         THEN /\ run' = [run EXCEPT ![r].pc = "tag",
                                                    ![r].credits = @ + complexity,
                                                    ![r].remoteCost = @ + complexity]
                              /\ quota' = quota
                         ELSE /\ run' = [run EXCEPT ![r] =
                                           accountResult(
                                             [rec EXCEPT !.remoteCost = @ + complexity],
                                             "processed", "none", complexity)]
                              /\ quota' = updateFromResponse(quota, complexity, now)
               ELSE /\ remoteCustoms' = remoteCustoms
                    /\ run' = [run EXCEPT ![r] =
                                 accountResult(rec, "error", "update_failed", rec.credits)]
                    /\ quota' = updateFromResponse(quota, rec.credits, now)
  /\ UNCHANGED << client, auth, gen, call, dist, config, now, remoteTags, cursorRow, batchRuns >>

\* await addOrderTag(...)
SendTag(r) ==
  /\ run[r].pc = "tag"
  /\ LET rec == run[r]
     IN \E ok \in Outcomes, complexity \in TagCosts :
          /\ faults' = failed(ok)
          /\ sent' = sent \cup {[run |-> r, order |-> rec.order.id, kind |-> "tag",
                                 total |-> 0, orderTotal |-> rec.order.total,
                                 ok |-> ok]}
          /\ IF ok
               THEN /\ remoteTags' = remoteTags \cup {rec.order.id}
                    /\ run' = [run EXCEPT ![r] =
                                 accountResult([rec EXCEPT !.remoteCost = @ + complexity],
                                               "processed", "none",
                                               rec.credits + complexity)]
                    /\ quota' = updateFromResponse(quota, rec.credits + complexity, now)
               ELSE /\ remoteTags' = remoteTags
                    /\ run' = [run EXCEPT ![r] =
                                 accountResult(rec, "error", "tag_failed", rec.credits)]
                    /\ quota' = updateFromResponse(quota, rec.credits, now)
  /\ UNCHANGED << client, auth, gen, call, dist, config, now, remoteCustoms, cursorRow, batchRuns >>

\* after the loops: status completed, then the cursor update (its failure
\* is logged and swallowed)
Finish(r) ==
  /\ run[r].pc = "finish"
  /\ \E ok \in IF attemptsCursorUpdate(run[r]) THEN Outcomes ELSE {TRUE} :
       /\ faults' = failed(ok)
       /\ cursorRow' =
            IF attemptsCursorUpdate(run[r])
              THEN cursorAfterAttempt(cursorRow,
                                      getLatestOrderDate(run[r].processedDates, now), ok)
              ELSE cursorRow
       /\ run' = [run EXCEPT
                    ![r].pc = "save", ![r].status = "completed",
                    ![r].cursorAttempt = IF ~attemptsCursorUpdate(run[r]) THEN "none"
                                         ELSE IF ok THEN "ok" ELSE "failed"]
  /\ UNCHANGED << client, auth, gen, call, dist, config, now, quota, remoteTags, remoteCustoms, batchRuns, sent >>

\* finally: db.update(batchRuns) (its failure is logged and swallowed)
SaveSummary(r) ==
  /\ run[r].pc = "save"
  /\ \E ok \in Outcomes :
       /\ faults' = failed(ok)
       /\ batchRuns' =
                    IF ok /\ batchRuns[r].status # NoRow
                      THEN [batchRuns EXCEPT ![r] = summaryRow(run[r], @)]
                      ELSE batchRuns
  /\ run' = [run EXCEPT ![r].pc = "done"]
  /\ UNCHANGED << client, auth, gen, call, dist, config, now, quota, remoteTags, remoteCustoms, cursorRow, sent >>

\* one call of distributeCustomsValues with freshly drawn weights
Distribute ==
  /\ ~dist.done
  /\ LET n == Len(SelectSeq(dist.items, LAMBDA it : isBillablePrice(it.price)))
     IN \E weights \in [1..n -> 1..MaxWeight] :
          dist' = [dist EXCEPT
                     !.weights = weights,
                     !.out = distributeCustomsValues(dist.items, dist.cap, weights),
                     !.done = TRUE]
  /\ UNCHANGED << client, auth, gen, call, config, now, quota, remoteTags, remoteCustoms, cursorRow,
                  batchRuns, run, sent, faults >>

\* ---- lib/shiphero/orders: one fetchAllOrders generator and its source
\* `pages` is the number of pages the source holds; a cursor is the number
\* of the page it ends, Null stands for undefined (and for a null endCursor)
NoGen ==
  [pc |-> "idle", pages |-> 0, cursor |-> Null, pageCount |-> 0,
   requests |-> << >>, yielded |-> << >>]

\* what the source may answer to a request with cursor c: an error, a
\* response without data, or the page after c (page 0: no edges) with any
\* pageInfo
responsesTo(c, pages) ==
  LET p == IF c = Null THEN 1 ELSE c + 1
  IN {[kind |-> k, page |-> 0, hasNextPage |-> FALSE, endCursor |-> Null] :
        k \in {"error", "no_data"}}
     \cup {[kind |-> "page", page |-> IF p <= pages THEN p ELSE 0,
            hasNextPage |-> h, endCursor |-> e] :
             h \in BOOLEAN, e \in {Null, p}}

\* one iteration of the `while (true)` of fetchAllOrders
fetchStep(g, response) ==
  LET req == [g EXCEPT !.pageCount = @ + 1, !.requests = Append(@, g.cursor)]
      yield == [req EXCEPT !.yielded = Append(@, response.page)]
  IN IF response.kind = "error" THEN [req EXCEPT !.pc = "thrown"]
     ELSE IF response.kind = "no_data" THEN [req EXCEPT !.pc = "done"]
     ELSE IF response.page = 0 THEN [req EXCEPT !.pc = "done"]
     ELSE IF ~response.hasNextPage THEN [yield EXCEPT !.pc = "done"]
     ELSE [yield EXCEPT !.cursor = response.endCursor]

Request ==
  /\ gen.pc = "running"
  /\ gen.pageCount < MaxRequests
  /\ \E response \in responsesTo(gen.cursor, gen.pages) :
       gen' = fetchStep(gen, response)
  /\ UNCHANGED << client, auth, call, dist, config, now, quota, remoteTags,
                  remoteCustoms, cursorRow, batchRuns, run, sent, faults >>

\* ---- lib/shiphero/client: one ShipHeroClient.request call
NoError == [kind |-> "none", statusCode |-> Null]

NoClient ==
  [pc |-> "idle", maxRetries |-> 0, retryDelay |-> 0, attempt |-> 0, delay |-> 0,
   log |-> << >>]

RECURSIVE pow2(_)
pow2(n) == IF n = 0 THEN 1 ELSE 2 * pow2(n - 1)

\* what one _executeRequest can meet: getValidToken throws (a token refresh
\* failed), fetch throws, an HTTP status, an unreadable body, GraphQL errors,
\* or data
Responses ==
  {"token_auth_error", "token_network_error", "fetch_failed", "401", "429",
   "400", "500", "503", "parse_error", "graphql_errors", "data"}

\* how auth.forceRefresh() ends after a 401
RefreshOutcomes == {"refreshed", "refresh_rejected", "refresh_network_error"}

\* the error _executeRequest throws (NoError: it returns the data)
thrownBy(response, refresh) ==
  CASE response = "data" -> NoError
    [] response = "token_auth_error" -> [kind |-> "auth", statusCode |-> 401]
    [] response = "token_network_error" -> [kind |-> "network", statusCode |-> Null]
    [] response = "fetch_failed" -> [kind |-> "network", statusCode |-> Null]
    [] response = "401" ->
         IF refresh = "refresh_network_error"
           THEN [kind |-> "network", statusCode |-> Null]
           ELSE [kind |-> "auth", statusCode |-> 401]
    [] response = "429" -> [kind |-> "quota", statusCode |-> 429]
    [] response = "400" -> [kind |-> "http", statusCode |-> 400]
    [] response = "500" -> [kind |-> "http", statusCode |-> 500]
    [] response = "503" -> [kind |-> "http", statusCode |-> 503]
    [] response = "parse_error" -> [kind |-> "parse", statusCode |-> Null]
    [] response = "graphql_errors" -> [kind |-> "graphql", statusCode |-> Null]

\* variant: every error with a status code is retried
isRetryableError_anyStatus(error) ==
  error.kind = "network" \/ error.statusCode # Null

isRetryableError(error) ==
  error.kind = "network" \/ (error.statusCode # Null /\ error.statusCode >= 500)

\* one pass of the for loop of request(): _executeRequest and the catch
Attempt ==
  /\ client.pc = "attempt"
  /\ \E response \in Responses :
     \E refresh \in IF response = "401" THEN RefreshOutcomes ELSE {"none"} :
       LET error == thrownBy(response, refresh)
           entry == [response |-> response, refresh |-> refresh, error |-> error,
                     attempt |-> client.attempt, delay |-> 0]
           delay == client.retryDelay * pow2(client.attempt)
       IN IF error = NoError
            THEN client' = [client EXCEPT !.pc = "returned", !.log = Append(@, entry)]
          ELSE IF error.kind \in {"auth", "graphql"}
            THEN client' = [client EXCEPT !.pc = "thrown", !.log = Append(@, entry)]
          ELSE IF error.kind = "quota"
            THEN client' = [client EXCEPT !.pc = "thrown", !.log = Append(@, entry)]
          ELSE IF isRetryableError(error) /\ client.attempt < client.maxRetries
            THEN client' = [client EXCEPT
                              !.pc = "sleep", !.delay = delay,
                              !.log = Append(@, [entry EXCEPT !.delay = delay])]
          ELSE client' = [client EXCEPT !.pc = "thrown", !.log = Append(@, entry)]
  /\ UNCHANGED << auth, gen, call, dist, config, now, quota, remoteTags, remoteCustoms,
                  cursorRow, batchRuns, run, sent, faults >>

\* await this._sleep(delay); continue
Backoff ==
  /\ client.pc = "sleep"
  /\ now' = now + client.delay
  /\ client' = [client EXCEPT !.pc = "attempt", !.attempt = @ + 1]
  /\ UNCHANGED << auth, gen, call, dist, config, quota, remoteTags, remoteCustoms,
                  cursorRow, batchRuns, run, sent, faults >>

\* ---- lib/shiphero/auth: the ShipHeroAuth singleton
\* a promise is its position in `promises`; null is Null.  tokenExpiryTime is
\* "null" (never refreshed), "zero" (forceRefresh), "valid" or "expired"
\* (set by a refresh; expired: within five minutes of the expiry or past it)
Callers == 1..MaxCallers
AuthOps == {"getValidToken", "refreshTokens", "forceRefresh"}

\* a caller: where it is, what it awaits, and (history) the refresh that was
\* pending when it called and whether it got the token cached in KV
NoCaller ==
  [pc |-> "idle", op |-> "none", waitsOn |-> Null, pendingAtCall |-> Null,
   cached |-> FALSE]

NoAuth ==
  [kvConfigured |-> FALSE, accessToken |-> "env", tokenExpiryTime |-> "null",
   isRefreshing |-> FALSE, refreshPromise |-> Null, promises |-> << >>,
   callers |-> [c \in Callers |-> NoCaller]]

pendingRefreshes(a) == {p \in 1..Len(a.promises) : a.promises[p] = "pending"}

\* !tokenExpiryTime (null or 0) counts as not expired
isTokenExpired(a) == a.tokenExpiryTime = "expired"

\* variant: a refresh is started whether or not one is pending
refreshTokens_unguarded(a, c) ==
  [a EXCEPT !.isRefreshing = TRUE,
            !.promises = Append(@, "pending"),
            !.refreshPromise = Len(a.promises) + 1,
            !.callers[c].pc = "initiator",
            !.callers[c].waitsOn = Len(a.promises) + 1]

\* refreshTokens up to its await: join the pending refresh, or set the
\* flags, start _performRefresh (the HTTP call) and await it
refreshTokens(a, c) ==
  IF a.isRefreshing /\ a.refreshPromise # Null
    THEN [a EXCEPT !.callers[c].pc = "joined",
                   !.callers[c].waitsOn = a.refreshPromise]
    ELSE [a EXCEPT !.isRefreshing = TRUE,
                   !.promises = Append(@, "pending"),
                   !.refreshPromise = Len(a.promises) + 1,
                   !.callers[c].pc = "initiator",
                   !.callers[c].waitsOn = Len(a.promises) + 1]

\* getValidToken: if (isRefreshing && refreshPromise) await refreshPromise;
\* return this.accessToken
awaitPending(a, c) ==
  IF a.isRefreshing /\ a.refreshPromise # Null
    THEN [a EXCEPT !.callers[c].pc = "waiting",
                   !.callers[c].waitsOn = a.refreshPromise]
    ELSE [a EXCEPT !.callers[c].pc = "returned", !.callers[c].waitsOn = Null]

\* getValidToken after the KV lookup gave no usable token
afterKv(a, c) ==
  IF isTokenExpired(a) THEN refreshTokens(a, c) ELSE awaitPending(a, c)

AuthFrame ==
  UNCHANGED << client, gen, call, dist, config, now, quota, remoteTags, remoteCustoms,
               cursorRow, batchRuns, run, sent, faults >>

\* a request calls getValidToken, refreshTokens or forceRefresh and runs to
\* its first await
CallAuth(c) ==
  /\ auth.callers[c].pc = "idle"
  /\ \E op \in AuthOps :
       LET a == [auth EXCEPT
                   !.callers[c].op = op,
                   !.callers[c].pendingAtCall =
                      IF pendingRefreshes(auth) = {} THEN Null
                      ELSE CHOOSE p \in pendingRefreshes(auth) : TRUE]
       IN auth' = CASE op = "refreshTokens" -> refreshTokens(a, c)
                    [] op = "forceRefresh" ->
                         refreshTokens([a EXCEPT !.tokenExpiryTime = "zero"], c)
                    [] op = "getValidToken" ->
                         IF a.kvConfigured THEN [a EXCEPT !.callers[c].pc = "kv"]
                         ELSE afterKv(a, c)
  /\ Len(auth'.promises) <= MaxRefreshes
  /\ AuthFrame

\* getValidToken after await Promise.all([kv.get, kv.get]): a cached token
\* valid for more than five minutes is returned at once; anything else
\* (nothing cached, expired, read error) falls through
KvRead(c) ==
  /\ auth.callers[c].pc = "kv"
  /\ \E hit \in BOOLEAN :
       auth' = IF hit THEN [auth EXCEPT !.callers[c].pc = "returned",
                                        !.callers[c].cached = TRUE]
               ELSE afterKv(auth, c)
  /\ Len(auth'.promises) <= MaxRefreshes
  /\ AuthFrame

\* _performRefresh settles: it stored the new token and its expiry, or threw
Settle ==
  /\ \E p \in pendingRefreshes(auth), ok \in BOOLEAN :
       auth' = IF ok
                 THEN [auth EXCEPT !.promises[p] = "fulfilled",
                                   !.accessToken = "refreshed",
                                   !.tokenExpiryTime = "valid"]
                 ELSE [auth EXCEPT !.promises[p] = "rejected"]
  /\ AuthFrame

\* a caller continues after the promise it awaits has settled; the caller
\* that started the refresh first runs the finally block of refreshTokens
Resume(c) ==
  /\ auth.callers[c].pc \in {"initiator", "joined", "waiting"}
  /\ auth.promises[auth.callers[c].waitsOn] # "pending"
  /\ LET me == auth.callers[c]
         a == IF me.pc = "initiator"
                THEN [auth EXCEPT !.isRefreshing = FALSE, !.refreshPromise = Null]
                ELSE auth
     IN auth' = IF auth.promises[me.waitsOn] = "rejected"
                  THEN [a EXCEPT !.callers[c].pc = "threw", !.callers[c].waitsOn = Null]
                ELSE IF me.op = "getValidToken" /\ me.pc # "waiting"
                  THEN awaitPending(a, c)
                ELSE [a EXCEPT !.callers[c].pc = "returned", !.callers[c].waitsOn = Null]
  /\ AuthFrame

\* the clock reaches five minutes before the expiry of the refreshed token
TokenExpires ==
  /\ auth.tokenExpiryTime = "valid"
  /\ auth' = [auth EXCEPT !.tokenExpiryTime = "expired"]
  /\ AuthFrame

\* ---- direct calls of the QuotaManager methods
QuotaFrame ==
  UNCHANGED << client, auth, gen, dist, config, remoteTags, remoteCustoms, cursorRow, batchRuns, run,
               sent, faults >>

\* the clock advances between two calls
Tick ==
  /\ call.n < MaxCalls
  /\ \E dt \in ClockSteps : now' = now + dt
  /\ call' = [call EXCEPT !.n = @ + 1]
  /\ quota' = quota
  /\ QuotaFrame

TrackRequest ==
  /\ call.n < MaxCalls
  /\ \E n \in Bursts :
       /\ quota' = trackRequests(quota, now, n)
       /\ call' = [called("trackRequest", n, Null, NoCall.result) EXCEPT
                     !.tracked = Append(@, [at |-> now, count |-> n])]
  /\ now' = now
  /\ QuotaFrame

UpdateFromResponse ==
  /\ call.n < MaxCalls
  /\ \E complexity \in ReportedCosts, remaining \in ReportedBalances :
       /\ quota' = updateFromResponseServer(quota, complexity, remaining, now)
       /\ call' = called("updateFromResponse", complexity, remaining, NoCall.result)
  /\ now' = now
  /\ QuotaFrame

CanProceed ==
  /\ call.n < MaxCalls
  /\ \E estimatedCost \in EstimatedCosts :
       call' = called("canProceed", estimatedCost, Null,
                      canProceed(quota, estimatedCost, now))
  /\ UNCHANGED << now, quota >>
  /\ QuotaFrame

\* waitForCredits(estimatedCost, maxWaitMs): the sleep, when there is one,
\* lasts check.waitMs and is followed by updateFromResponse(0)
WaitForCredits ==
  /\ call.n < MaxCalls
  /\ \E estimatedCost \in EstimatedCosts, maxWaitMs \in MaxWaits :
       LET check == canProceed(quota, estimatedCost, now)
           decision == waitForCreditsDecision(quota, estimatedCost, maxWaitMs, now)
       IN /\ now' = IF decision = "sleep" THEN now + check.waitMs ELSE now
          /\ quota' = IF decision = "sleep" THEN updateFromResponse(quota, 0, now')
                       ELSE quota
          /\ call' = [called("waitForCredits", estimatedCost, Null, check) EXCEPT
                        !.maxWaitMs = maxWaitMs,
                        !.returned = decision # "false",
                        !.sleeps = IF decision = "sleep" THEN 1 ELSE 0,
                        !.slept = IF decision = "sleep" THEN check.waitMs ELSE 0]
  /\ QuotaFrame

Reset ==
  /\ call.n < MaxCalls
  /\ quota' = reset(quota, now)
  /\ call' = [called("reset", 0, Null, NoCall.result) EXCEPT !.tracked = << >>]
  /\ now' = now
  /\ QuotaFrame

\* ------------------------------------------------------------ specifications
NoDist == [items |-> <<>>, cap |-> 0, weights |-> <<>>, out |-> <<>>, done |-> FALSE]

InitRest ==
  /\ now = T0
  /\ quota = InitQuota
  /\ remoteTags = {}
  /\ remoteCustoms = [id \in OrderIds |-> 0]
  /\ cursorRow = NoCursor
  /\ batchRuns = [r \in Runs |-> [newRunRow EXCEPT !.status = NoRow]]
  /\ sent = {}
  /\ call = NoCall

DefaultConfig ==
  [dryRun |-> FALSE, enableCustomsUpdate |-> TRUE, enableTagging |-> TRUE,
   maxCustomsValue |-> DEFAULT_MAX_TOTAL]

\* the deployments of the batch specifications
BatchConfigs ==
  {cfg \in [dryRun : BOOLEAN, enableCustomsUpdate : BOOLEAN, enableTagging : BOOLEAN,
            maxCustomsValue : {DEFAULT_MAX_TOTAL}] :
     \* in dry-run mode the two mutation flags are never consulted
     cfg.dryRun => cfg.enableCustomsUpdate /\ cfg.enableTagging}

Init ==
  /\ dist = NoDist
  /\ config \in BatchConfigs
  /\ run = [r \in Runs |-> IdleRun]
  /\ faults = MaxFaults
  /\ gen = NoGen
  /\ client = NoClient
  /\ auth = NoAuth
  /\ InitRest

Step(r, exclusive) ==
  \/ GET(r, exclusive)
  \/ InitCursor(r)
  \/ CreateRun(r)
  \/ FetchPage(r)
  \/ NextOrder(r)
  \/ Wake(r)
  \/ OrderBegin(r)
  \/ SendUpdate(r)
  \/ SendTag(r)
  \/ Finish(r)
  \/ SaveSummary(r)

\* invocations that never overlap (the cron schedule)
Next == \E r \in Runs : Step(r, TRUE)
Spec == Init /\ [][Next]_vars

\* invocations that may overlap (a second trigger while one is running)
InitOverlap ==
  /\ dist = NoDist
  /\ config = DefaultConfig
  /\ run = [r \in Runs |-> IdleRun]
  /\ faults = MaxOverlapFaults
  /\ gen = NoGen
  /\ client = NoClient
  /\ auth = NoAuth
  /\ InitRest

NextOverlap == \E r \in {1, 2} : Step(r, FALSE)
SpecOverlap == InitOverlap /\ [][NextOverlap]_vars

\* ---- a single processOrder call on an arbitrary order
\* the configurations with which the route reaches processBatch
OrderConfigs ==
  {cfg \in [dryRun : BOOLEAN, enableCustomsUpdate : BOOLEAN, enableTagging : BOOLEAN,
            maxCustomsValue : MaxCustomsValues] : routeAdmits(cfg, TRUE)}

OrderInputs ==
  [id : {1}, hasAddress : BOOLEAN, country : {"TR", "DE"}, tagged : BOOLEAN,
   items : {mkItems(prices) : prices \in ItemLists}, total : Totals,
   date : {8 * ONE_DAY}, status : {"Vacier"}]

InitOrder ==
  /\ dist = NoDist
  /\ config \in OrderConfigs
  /\ \E order \in OrderInputs :
       run = [r \in Runs |->
                IF r = 1 THEN [IdleRun EXCEPT !.pc = "order", !.order = order,
                                              !.page = <<order>>, !.ordersQueried = 1]
                ELSE IdleRun]
  /\ faults = 1
  /\ gen = NoGen
  /\ client = NoClient
  /\ auth = NoAuth
  /\ InitRest

NextOrder1 == OrderBegin(1) \/ SendUpdate(1) \/ SendTag(1)
SpecOrder == InitOrder /\ [][NextOrder1]_vars

\* ---- a sequence of direct QuotaManager calls
InitQuotaCalls ==
  /\ dist = NoDist
  /\ config = DefaultConfig
  /\ run = [r \in Runs |-> IdleRun]
  /\ faults = 0
  /\ gen = NoGen
  /\ client = NoClient
  /\ auth = NoAuth
  /\ InitRest

\* the calls reach the singleton of getQuotaManager(), which an invocation of
\* the route on the same instance finds as they left it
NextQuota ==
  \/ Tick
  \/ TrackRequest
  \/ UpdateFromResponse
  \/ CanProceed
  \/ WaitForCredits
  \/ Reset
  \/ (call.n < MaxCalls /\ GET(1, TRUE))
SpecQuota == InitQuotaCalls /\ [][NextQuota]_vars

\* ---- a single fetchAllOrders call against an arbitrary source
InitFetch ==
  /\ gen \in {[NoGen EXCEPT !.pc = "running", !.pages = n] : n \in 1..MaxPages}
  /\ dist = NoDist
  /\ config = DefaultConfig
  /\ run = [r \in Runs |-> IdleRun]
  /\ faults = 0
  /\ client = NoClient
  /\ auth = NoAuth
  /\ InitRest

NextFetch == Request
SpecFetch == InitFetch /\ [][NextFetch]_vars

\* ---- a single ShipHeroClient.request call with any options.maxRetries up
\* to the default
InitClient ==
  /\ client \in {[NoClient EXCEPT !.pc = "attempt", !.maxRetries = m,
                                    !.retryDelay = DEFAULT_RETRY_DELAY] :
                    m \in 0..DEFAULT_MAX_RETRIES}
  /\ auth = NoAuth
  /\ gen = NoGen
  /\ dist = NoDist
  /\ config = DefaultConfig
  /\ run = [r \in Runs |-> IdleRun]
  /\ faults = 0
  /\ InitRest

NextClient == Attempt \/ Backoff
SpecClient == InitClient /\ [][NextClient]_vars

\* ---- one ShipHeroAuth instance used by interleaved requests, with and
\* without the KV token cache
InitAuth ==
  /\ auth \in {[NoAuth EXCEPT !.kvConfigured = kv] : kv \in BOOLEAN}
  /\ client = NoClient
  /\ gen = NoGen
  /\ dist = NoDist
  /\ config = DefaultConfig
  /\ run = [r \in Runs |-> IdleRun]
  /\ faults = 0
  /\ InitRest

NextAuth ==
  \/ \E c \in Callers : CallAuth(c) \/ KvRead(c) \/ Resume(c)
  \/ Settle
  \/ TokenExpires

SpecAuth == InitAuth /\ [][NextAuth]_vars

\* ---- a single distributeCustomsValues call on arbitrary items
Caps == {0, 500, 1000, 2000, 10000, DEFAULT_MAX_TOTAL, 100000}

InitDist ==
  /\ dist \in [items : {mkItems(prices) : prices \in DistItemLists}, cap : Caps,
               weights : {<<>>}, out : {<<>>}, done : {FALSE}]
  /\ config = DefaultConfig
  /\ run = [r \in Runs |-> IdleRun]
  /\ faults = 0
  /\ gen = NoGen
  /\ client = NoClient
  /\ auth = NoAuth
  /\ InitRest

NextDist == Distribute
SpecDist == InitDist /\ [][NextDist]_vars

\* ------------------------------------------------------------- properties
updatesOf(o) == {e \in sent : e.kind = "update" /\ e.order = o}
tagsOf(o) == {e \in sent : e.kind = "tag" /\ e.order = o}
quiescent == \A r \in Runs : run[r].pc \in {"idle", "done", "rejected"}

\* C1: for every cap >= 0 and every list of line items, the values returned
\* by distributeCustomsValues for the non-complimentary items sum to at most
\* cap + 0.01, also when n > 1 billable items meet a cap below n x 0.50.
C1_SumWithinCap ==
  dist.done => billableTotal(dist.out) <= dist.cap + ROUNDING_TOLERANCE

\* C2: whenever processOrder sends the line-item update, the customs values
\* it sends sum to at most min(configured maximum, order total) + 0.01.
C2_UpdateWithinEffectiveCap ==
  \A e \in sent :
    e.kind = "update" =>
      e.total <= Min2(config.maxCustomsValue, e.orderTotal) + ROUNDING_TOLERANCE

\* C3: across non-overlapping runs, once the tag mutation for an order has
\* succeeded, no mutation is sent for that order any more, and every
\* processOrder result for it is skipped/already_tagged.
C3_NoMutationOnceTagged ==
  [][ /\ \A e \in sent' \ sent : e.order \notin remoteTags
      /\ \A r \in Runs :
           (run'[r].lastResult # run[r].lastResult
              /\ run'[r].lastResult.orderId \in remoteTags)
             => (run'[r].lastResult.status = "skipped"
                   /\ run'[r].lastResult.reason = "already_tagged") ]_vars

\* a later run met an order that an earlier run had tagged, and skipped it
C3_Witness ==
  \E r \in Runs :
    /\ run[r].lastResult.status = "skipped"
    /\ run[r].lastResult.reason = "already_tagged"
    /\ \E t \in tagsOf(run[r].lastResult.orderId) : t.ok /\ t.run # r

\* C4 as stated: when two runs overlap, at most one of them sends the
\* line-item update for any given order.
C4_AtMostOneUpdater ==
  \A o \in OrderIds : Cardinality({e.run : e \in updatesOf(o)}) <= 1

\* C4 amended: the tag check is made on the order as the run fetched it; a
\* run inside the mutation phase of processOrder holds a copy of the order
\* that did not carry the tag (so two overlapping runs that fetched the
\* order before either tagged it both send the update).
C4_UpdateOnlyForUntaggedCopy ==
  \A r \in Runs : run[r].pc \in {"update", "tag"} => ~run[r].order.tagged

\* two overlapping runs have both applied the update to one order
C4_Witness ==
  \E e1 \in sent, e2 \in sent :
    /\ e1.kind = "update" /\ e2.kind = "update"
    /\ e1.ok /\ e2.ok
    /\ e1.order = e2.order
    /\ e1.run # e2.run
    /\ run[e1.run].pc # "done" /\ run[e2.run].pc # "done"

\* C5: processOrder reports the reason of the first failing rule, in the
\* order missing_address, not_turkey, already_tagged, no_billable_items,
\* zero_or_negative_total; an order passing all of them is not skipped.
C5_FirstFailingRule ==
  \A r \in Runs :
    LET o == run[r].order
        res == run[r].lastResult
        noAddress == ~o.hasAddress
        wrongCountry == o.country # "TR"
        tagged == o.tagged
        noBillable == \A i \in 1..Len(o.items) : o.items[i].price <= 0
        noTotal == o.total <= 0
    IN (res.status # "none" /\ res.orderId = o.id) =>
         /\ noAddress => res.reason = "missing_address"
         /\ (~noAddress /\ wrongCountry) => res.reason = "not_turkey"
         /\ (~noAddress /\ ~wrongCountry /\ tagged) => res.reason = "already_tagged"
         /\ (~noAddress /\ ~wrongCountry /\ ~tagged /\ noBillable)
              => res.reason = "no_billable_items"
         /\ (~noAddress /\ ~wrongCountry /\ ~tagged /\ ~noBillable /\ noTotal)
              => res.reason = "zero_or_negative_total"
         /\ (noAddress \/ wrongCountry \/ tagged \/ noBillable \/ noTotal)
              <=> res.status = "skipped"

\* an order with a wrong destination and the tag was skipped as not_turkey
C5_Witness ==
  /\ run[1].lastResult.status = "skipped"
  /\ run[1].lastResult.reason = "not_turkey"
  /\ run[1].order.hasAddress
  /\ run[1].order.country # "TR"
  /\ run[1].order.tagged

\* C6: in a live run the tag mutation for an order is sent only after the
\* line-item update for the same order succeeded in the same call, and no
\* tag mutation is sent in a call whose update threw.
C6_TagOnlyAfterUpdate ==
  /\ \A r \in Runs :
       run[r].pc = "tag" =>
         \E e \in updatesOf(run[r].order.id) : e.run = r /\ e.ok
  /\ \A t \in sent :
       t.kind = "tag" => \E e \in updatesOf(t.order) : e.run = t.run /\ e.ok
  /\ \A e \in sent :
       (e.kind = "update" /\ ~e.ok) =>
         ~\E t \in tagsOf(e.order) : t.run = e.run

\* a run whose update for one order threw has ended, having tagged another
C6_Witness ==
  \E e \in sent, t \in sent :
    /\ e.kind = "update" /\ ~e.ok
    /\ t.kind = "tag" /\ t.run = e.run /\ t.order # e.order
    /\ run[e.run].pc = "done"

\* C7 as stated: a mutation is sent for a record only if the most recent
\* canProceed evaluation made for that record returned ok.
C7_LatestCheckOk ==
  \A r \in Runs : run[r].pc \in {"update", "tag"} => run[r].checkOk

\* C7 amended: a record enters processOrder either after a canProceed
\* evaluation that returned ok, or after waitForCredits slept the wait that
\* the failed evaluation computed, with no evaluation after the sleep; with
\* non-overlapping runs the credit estimate then covers the estimated cost
\* plus the buffer.
C7_CheckedOrSlept ==
  \A r \in Runs :
    /\ run[r].pc \in {"order", "update", "tag"} =>
         (run[r].checkOk \/ run[r].slept)
    /\ run[r].pc = "order" => canProceed(quota, ESTIMATED_COST, now).ok

\* an update is about to be sent for a record admitted by the sleep alone
C7_Witness ==
  \E r \in Runs : run[r].pc = "update" /\ run[r].slept /\ ~run[r].checkOk

\* C8: after the throttle refused a record, the run processes no further
\* record and its counts cover only the records handled before the refusal.
C8_NothingAfterRefusal ==
  \A r \in Runs :
    run[r].refused =>
      /\ run[r].pc \notin {"order", "sleep", "update", "tag"}
      /\ handled(run[r]) = run[r].handledAtRefusal

\* C9 as stated: every write of the cursor leaves the stored date at or
\* above the date stored before it.
C9_CursorMonotone ==
  [][cursorRow.exists =>
       cursorRow'.lastProcessedDate >= cursorRow.lastProcessedDate]_vars

\* C9 amended: the cursor update stores the run's watermark whatever the
\* stored date is (last writer wins); the stored date does not decrease when
\* the run read its start date from the cursor and its watermark was not
\* capped to now (non-overlapping runs).
C9_LastWriterWins ==
  [][\A r \in Runs :
       (run[r].pc = "finish" /\ run'[r].pc = "save" /\ cursorRow' # cursorRow) =>
         LET latest == CHOOSE d \in run[r].processedDates :
                         \A e \in run[r].processedDates : e <= d
             capped == latest > now + ONE_DAY
         IN /\ cursorRow'.lastProcessedDate = IF capped THEN now ELSE latest
            /\ (run[r].cursorRead # "fallback" /\ ~capped) =>
                 cursorRow'.lastProcessedDate >= cursorRow.lastProcessedDate]_vars

\* a run that fell back to the start date has moved the cursor backwards
C9_Witness ==
  \E r \in Runs, q \in Runs :
    /\ run[q].pc = "done" /\ run[q].processedDates # {}
    /\ run[r].cursorRead = "fallback" /\ run[r].pc = "save"
    /\ \E d \in run[q].processedDates :
         cursorRow.exists /\ cursorRow.lastProcessedDate < d /\ d <= T0

\* C10: an order whose update succeeded but which is still untagged when the
\* run has ended is not excluded from the next run's query by the cursor.
C10_CursorKeepsUntagged ==
  \A o \in OrderIds :
    (quiescent /\ cursorRow.exists /\ o \notin remoteTags
       /\ \E e \in updatesOf(o) : e.ok)
      => Catalogue[o].date >= cursorRow.lastProcessedDate

\* C11 as stated: at the end of every run, also one ended by an exception,
\* a cursor update computed from the processed records is attempted before
\* the summary is persisted.
C11_CursorAttemptedAtEveryEnd ==
  \A r \in Runs :
    (run[r].pc \in {"save", "done"} /\ run[r].processedDates # {})
      => run[r].cursorAttempt # "none"

\* C11 amended: the cursor update is attempted exactly in the runs that left
\* the loops normally (status completed) with at least one processed record,
\* before the summary is persisted; a run ended by an exception attempts none.
C11_CursorAttemptedOnCompletion ==
  \A r \in Runs :
    /\ run[r].cursorAttempt # "none"
         <=> (run[r].pc \in {"save", "done"} /\ run[r].status = "completed"
                /\ run[r].processedDates # {})
    /\ run[r].caught.raised => run[r].cursorAttempt = "none"
    /\ batchRuns[r].updates > 0 => run[r].pc = "done"

\* a run that processed records and then failed has ended without an attempt
C11_Witness ==
  \E r \in Runs :
    /\ run[r].pc = "done" /\ run[r].status = "failed"
    /\ run[r].processedDates # {}
    /\ run[r].cursorAttempt = "none"

C13_ErrorResultIsCounted ==
  [][\A r \in Runs :
       (run'[r].lastResult # run[r].lastResult
          /\ run'[r].lastResult.status = "error") =>
         /\ run'[r].lastResult.orderId = run[r].order.id
         /\ run'[r].lastResult.creditsUsed = run[r].credits
         /\ run'[r].errorsCount = run[r].errorsCount + 1
         /\ run'[r].errorDetails = Append(run[r].errorDetails, run[r].order.id)
         /\ run'[r].creditsUsed = run[r].creditsUsed + run[r].credits
         /\ run'[r].ordersProcessed = run[r].ordersProcessed
         /\ run'[r].ordersSkipped = run[r].ordersSkipped
         /\ run'[r].pc = "next" /\ run'[r].idx = run[r].idx + 1
         /\ run'[r].status = "running"]_vars

\* after an order whose tag mutation failed, a later order was processed
C13_Witness ==
  \E r \in Runs :
    /\ run[r].errorsCount = 1 /\ Len(run[r].errorDetails) = 1
    /\ run[r].lastResult.status = "processed"
    /\ run[r].lastResult.orderId # run[r].errorDetails[1]
    /\ \E t \in tagsOf(run[r].errorDetails[1]) : t.run = r /\ ~t.ok

\* C14: an allocation exceeding the order total by more than 0.01 gives an
\* error result (not a skip) without any mutation, and the caller goes on.
C14_ExceedingTotalIsError ==
  /\ \A e \in sent :
       e.kind = "update" => e.total <= e.orderTotal + ROUNDING_TOLERANCE
  /\ \A r \in Runs :
       LET o == run[r].order
           res == run[r].lastResult
           n == Cardinality({i \in 1..Len(o.items) : o.items[i].price > 0})
           eligible == o.hasAddress /\ o.country = "TR" /\ ~o.tagged
                         /\ n > 0 /\ o.total > 0
       IN /\ (res.status # "none" /\ eligible /\ n >= 2
                /\ n * MIN_ITEM_VALUE > o.total + ROUNDING_TOLERANCE)
               => res.reason = "exceeds_order_total"
          /\ res.reason = "exceeds_order_total" =>
               /\ res.status = "error" /\ res.creditsUsed = 0
               /\ run[r].errorsCount = 1 /\ run[r].ordersSkipped = 0
               /\ run[r].pc = "next"
               /\ sent = {}

\* three billable items of an order worth 1.00 were allocated 1.50
C14_Witness ==
  /\ run[1].lastResult.status = "error"
  /\ run[1].lastResult.reason = "exceeds_order_total"
  /\ run[1].order.total = 1000
  /\ Len(run[1].order.items) = 3

\* C15: a skipped result has creditsUsed = 0 and no remote call was made for
\* it; an otherwise eligible order with total <= 0 is skipped with the
\* reason zero_or_negative_total.
C15_SkippedIsFree ==
  \A r \in Runs :
    LET o == run[r].order
        res == run[r].lastResult
    IN /\ res.status = "skipped" =>
            /\ res.creditsUsed = 0
            /\ run[r].creditsUsed = 0
            /\ quota.totalCreditsUsed = 0
            /\ sent = {}
       /\ (res.status # "none" /\ o.hasAddress /\ o.country = "TR" /\ ~o.tagged
             /\ (\E i \in 1..Len(o.items) : o.items[i].price > 0)
             /\ o.total <= 0)
            => (res.status = "skipped" /\ res.reason = "zero_or_negative_total")

\* an otherwise eligible order with total 0.00 was skipped
C15_Witness ==
  /\ run[1].lastResult.status = "skipped"
  /\ run[1].lastResult.reason = "zero_or_negative_total"
  /\ run[1].order.total = 0
  /\ quota.totalCreditsUsed = 0

\* C16: a failing cursor update leaves the stored cursor and the counters as
\* they were, the run ends with status completed, and the summary persisted
\* afterwards carries that status.
C16_CursorFailureIsNotFatal ==
  /\ [](\A r \in Runs :
          run[r].cursorAttempt = "failed" =>
            /\ run[r].status = "completed"
            /\ run[r].pc \in {"save", "done"}
            /\ batchRuns[r].updates > 0 =>
                 /\ batchRuns[r].status = "completed"
                 /\ batchRuns[r].ordersProcessed = run[r].ordersProcessed)
  /\ [][\A r \in Runs :
          (run[r].cursorAttempt # "failed" /\ run'[r].cursorAttempt = "failed") =>
            /\ cursorRow' = cursorRow
            /\ handled(run'[r]) = handled(run[r])
            /\ run'[r].ordersQueried = run[r].ordersQueried
            /\ run'[r].creditsUsed = run[r].creditsUsed]_vars

\* the cursor update failed, the run completed and its summary is persisted
C16_Witness ==
  \E r \in Runs :
    /\ run[r].cursorAttempt = "failed" /\ run[r].pc = "done"
    /\ run[r].ordersProcessed > 0
    /\ batchRuns[r].updates = 1 /\ batchRuns[r].status = "completed"

\* C17: a run whose cursor read failed queries from the configured start
\* date and goes on (the read failure does not end the run as failed).
C17_ReadFailureFallsBack ==
  \A r \in Runs :
    run[r].cursorRead = "fallback" =>
      /\ run[r].processingStartDate = StartDate
      /\ run[r].pc \notin {"idle", "rejected"}
      /\ run[r].pc = "insert" => run[r].status = "running"
      /\ run[r].status = "failed" => run[r].caught.raised

\* a run that fell back to the start date has processed an order
C17_Witness ==
  \E r \in Runs :
    /\ run[r].cursorRead = "fallback"
    /\ run[r].ordersProcessed > 0
    /\ run[r].pc = "done" /\ run[r].status = "completed"

\* C18 as stated: whatever fails, the summary row is updated exactly once,
\* at the end, with the terminal status that is returned.
C18_RowUpdatedExactlyOnce ==
  \A r \in Runs :
    run[r].pc = "done" =>
      /\ run[r].status \in {"completed", "failed"}
      /\ batchRuns[r].updates = 1
      /\ batchRuns[r].status = run[r].status

\* C18 amended: the status returned is terminal, never running; the summary
\* row is updated at most once, at the end, with the returned status; when
\* the insert or the final update fails the row is absent or stays running.
C18_TerminalStatusReturned ==
  \A r \in Runs :
    LET row == batchRuns[r]
    IN /\ run[r].pc = "done" => run[r].status \in {"completed", "failed"}
       /\ row.updates <= 1
       /\ row.updates = 1 => (run[r].pc = "done" /\ row.status = run[r].status)
       /\ (row.updates = 0 /\ row.status # NoRow) => row.status = "running"
       /\ (run[r].pc = "done" /\ row.updates = 0) =>
            row.status \in {NoRow, "running"}

\* a run has returned while its row still says running
C18_Witness ==
  \E r \in Runs :
    /\ run[r].pc = "done" /\ run[r].status = "completed"
    /\ batchRuns[r].status = "running"

\* C19: canProceed(cost) checks the request window first: with 100 or fewer
\* requests left in the window it answers request_limit whatever the credits
\* are; otherwise it is ok exactly when
\* min(MAX_CREDITS, remaining + floor(elapsed seconds x 60)) >= cost + 100,
\* and else answers insufficient_credits with waitMs = ceil(missing / 60) x 1000.
C19_WindowThenCredits ==
  call.op = "canProceed" =>
    LET q == call.before
        res == call.result
        counted == {i \in 1..Len(q.requestTimestamps) :
                      q.requestTimestamps[i].at > call.at - 300000}
        requests == SumSeq([i \in 1..Len(q.requestTimestamps) |->
                              IF i \in counted THEN q.requestTimestamps[i].count ELSE 0])
        current == Min2(4004, q.remainingCredits
                                + ((call.at - q.lastUpdateTime) * 60) \div 1000)
        missing == call.cost + 100 - current
    IN IF 7000 - requests <= 100
         THEN ~res.ok /\ res.reason = "request_limit"
         ELSE /\ res.ok <=> current >= call.cost + 100
              /\ ~res.ok =>
                   /\ res.reason = "insufficient_credits"
                   /\ res.waitMs = ((missing + 59) \div 60) * 1000
                   /\ res.waitMs >= (missing * 1000) \div 60
                   /\ res.waitMs < (missing * 1000) \div 60 + 1000

\* canProceed answered request_limit although the credits were short too
C19_Witness ==
  /\ call.op = "canProceed"
  /\ ~call.result.ok /\ call.result.reason = "request_limit"
  /\ call.before.remainingCredits < call.cost + 100
  /\ call.at = call.before.lastUpdateTime

\* C20: updateFromResponse(cost, remaining) stores the server-reported
\* balance as it is when it is given, and otherwise
\* min(MAX_CREDITS, balance - cost + replenished); either way the total of
\* credits used grows by cost.
C20_ServerBalancePreferred ==
  call.op = "updateFromResponse" =>
    LET q == call.before
        replenished == ((call.at - q.lastUpdateTime) * 60) \div 1000
    IN /\ call.remaining # Null => quota.remainingCredits = call.remaining
       /\ call.remaining = Null =>
            quota.remainingCredits =
              Min2(4004, q.remainingCredits - call.cost + replenished)
       /\ quota.totalCreditsUsed = q.totalCreditsUsed + call.cost
       /\ quota.lastUpdateTime = call.at
       /\ quota.requestTimestamps = q.requestTimestamps

\* a server-reported balance replaced a different local estimate
C20_Witness ==
  /\ call.op = "updateFromResponse"
  /\ call.remaining = 3500 /\ call.cost = 100
  /\ quota.remainingCredits = 3500
  /\ call.before.remainingCredits - call.cost # 3500
  /\ quota.totalCreditsUsed > call.cost

C21_Witness ==
  /\ call.op = "waitForCredits"
  /\ call.sleeps = 1
  /\ call.slept > 0
  /\ call.result.reason = "insufficient_credits"

\* a call that returned false because the wait exceeded maxWaitMs
C21_WitnessTooLong ==
  /\ call.op = "waitForCredits"
  /\ ~call.returned
  /\ call.result.waitMs > call.maxWaitMs

C22_ResetRestoresAll ==
  /\ [](call.op = "reset" =>
          /\ quota.remainingCredits = MAX_CREDITS
          /\ getRequestsInWindow(quota, now) = 0
          /\ quota.totalCreditsUsed = 0)
  /\ [][\A r \in Runs :
          run[r].pc = "idle" /\ run'[r].pc \in {"insert", "init_cursor"} =>
            /\ quota'.remainingCredits = MAX_CREDITS
            /\ getRequestsInWindow(quota', now') = 0
            /\ quota'.totalCreditsUsed = 0]_vars

\* a reset of a manager that had spent credits and tracked requests
C22_Witness ==
  /\ call.op = "reset"
  /\ run[1].pc = "idle"
  /\ call.before.totalCreditsUsed > 0
  /\ call.before.remainingCredits < MAX_CREDITS
  /\ getRequestsInWindow(call.before, call.at) > 0

\* a run started on a manager that had spent credits and tracked requests
C22_WitnessRun ==
  /\ run[1].pc \in {"insert", "init_cursor"}
  /\ call.op = "reset"
  /\ call.before.totalCreditsUsed > 0
  /\ getRequestsInWindow(call.before, call.at) > 0

\* C23: the rolling request count is the number of requests tracked since
\* the last reset whose timestamp is less than the window duration (5
\* minutes) before the current time: a request is excluded once the clock
\* has advanced to timestamp + window, and requests tracked later are still
\* counted.
C23_CountedWhileInWindow ==
  getRequestsInWindow(quota, now) =
    countOf(SelectSeq(call.tracked, LAMBDA e : now - e.at < REQUEST_WINDOW_MS))

\* an old request has left the count while a later one is still in it
C23_Witness ==
  /\ \E i \in 1..Len(call.tracked) : now - call.tracked[i].at > REQUEST_WINDOW_MS
  /\ \E i \in 1..Len(call.tracked) : now - call.tracked[i].at < REQUEST_WINDOW_MS
  /\ getRequestsInWindow(quota, now) > 0
  /\ getRequestsInWindow(quota, now) < countOf(call.tracked)

\* the clock stands exactly one window after a tracked request
C23_WitnessBoundary ==
  /\ \E i \in 1..Len(call.tracked) : now - call.tracked[i].at = REQUEST_WINDOW_MS
  /\ getRequestsInWindow(quota, now) < countOf(call.tracked)

\* C24: after a run, the total credits recorded by the quota manager equal
\* the sum of the reported costs of every remote call of the run, the
\* order-page queries as well as the mutations.
C24_TotalIsSumOfAllCalls ==
  \A r \in Runs :
    run[r].pc \in {"finish", "save"} => quota.totalCreditsUsed = run[r].remoteCost

\* C29: fetchAllOrders never yields the same page twice, whatever the
\* source answers, a null endCursor next to hasNextPage = true included.
C29_NoPageYieldedTwice ==
  \A i, j \in 1..Len(gen.yielded) : i # j => gen.yielded[i] # gen.yielded[j]

\* C30: a fetch error in the middle of a filter's stream is passed on
\* unretried and ends the stream: the failing request is the last page
\* request of the run, no order is fetched or handled after it and no
\* mutation is sent, while the counts of the orders handled before it stay
\* as they were in the summary of the (failed) run.
C30_FetchErrorAbortsStream ==
  [][\A r \in Runs :
       /\ run[r].pc = "fetch" /\ run'[r].fetchFailed =>
            /\ run'[r].pageRequests = run[r].pageRequests + 1
            /\ run'[r].status = "failed"
            /\ run'[r].pc = "save"
            /\ run'[r].ordersQueried = run[r].ordersQueried
            /\ run'[r].ordersProcessed = run[r].ordersProcessed
            /\ run'[r].ordersSkipped = run[r].ordersSkipped
            /\ run'[r].errorsCount = run[r].errorsCount
            /\ run'[r].creditsUsed = run[r].creditsUsed
       /\ run[r].fetchFailed =>
            /\ run'[r].pageRequests = run[r].pageRequests
            /\ run'[r].pc \in {"save", "done"}
            /\ run'[r].ordersQueried = run[r].ordersQueried
            /\ run'[r].ordersProcessed = run[r].ordersProcessed
            /\ run'[r].ordersSkipped = run[r].ordersSkipped
            /\ run'[r].errorsCount = run[r].errorsCount
            /\ run'[r].creditsUsed = run[r].creditsUsed
            /\ run[r].pc = "save" => sent' = sent
            /\ run'[r].pc = "done" /\ batchRuns'[r] # batchRuns[r] =>
                 /\ batchRuns'[r].status = "failed"
                 /\ batchRuns'[r].ordersProcessed = run[r].ordersProcessed
                 /\ batchRuns'[r].errorsCount = run[r].errorsCount]_vars

\* the second page of a filter failed after the first page's order was
\* processed, and the failed summary was saved with that order in it
C30_Witness ==
  \E r \in Runs :
    /\ run[r].pc = "done"
    /\ run[r].fetchFailed
    /\ run[r].pageNo >= 2
    /\ run[r].ordersProcessed >= 1
    /\ batchRuns[r].status = "failed"
    /\ batchRuns[r].ordersProcessed = run[r].ordersProcessed

\* C25: in dry-run mode no mutation is made: whatever the order and the
\* two feature flags, processOrder sends neither the line-item update nor
\* the tag mutation, returns creditsUsed = 0, and the tags and customs
\* values held by ShipHero stay as they were.
C25_DryRunMutatesNothing ==
  config.dryRun =>
    /\ sent = {}
    /\ remoteTags = {}
    /\ remoteCustoms = [id \in OrderIds |-> 0]
    /\ \A r \in Runs :
         /\ run[r].pc \notin {"update", "tag"}
         /\ run[r].credits = 0
         /\ run[r].lastResult.creditsUsed = 0
         /\ run[r].creditsUsed = 0

\* a dry run in which an order with both flags on came out as processed
C25_Witness ==
  /\ config.dryRun
  /\ config.enableCustomsUpdate
  /\ config.enableTagging
  /\ run[1].lastResult.status = "processed"

\* the entries of the output of the call for the input item at position i
entriesOf(i) ==
  {k \in 1..Len(dist.out) : dist.out[k].lineItemId = dist.items[i].id}

\* the billable input items of the call
billableOf(items) == {i \in 1..Len(items) : isBillablePrice(items[i].price)}

\* C26: distributeCustomsValues returns exactly one entry per input line
\* item; an item whose price is <= 0 or missing gets value 0.00 and
\* isComplimentary = true, an item whose price is > 0 gets isComplimentary =
\* false; empty input gives empty output.
C26_OneEntryPerItem ==
  dist.done =>
    /\ Len(dist.out) = Len(dist.items)
    /\ \A i \in 1..Len(dist.items) :
         /\ Cardinality(entriesOf(i)) = 1
         /\ \A k \in entriesOf(i) :
              /\ isComplimentaryPrice(dist.items[i].price) =>
                   dist.out[k].newCustomsValue = 0 /\ dist.out[k].isComplimentary
              /\ isBillablePrice(dist.items[i].price) => ~dist.out[k].isComplimentary

C27_WitnessLargeCap ==
  /\ dist.done
  /\ Cardinality(billableOf(dist.items)) = 1
  /\ dist.cap > MAX_ITEM_VALUE
  /\ \E k \in 1..Len(dist.out) : dist.out[k].newCustomsValue = MAX_ITEM_VALUE

C28_WitnessAtMax ==
  /\ dist.done
  /\ Cardinality(billableOf(dist.items)) > 1
  /\ dist.cap > Cardinality(billableOf(dist.items)) * MAX_ITEM_VALUE
  /\ \A k \in 1..Len(dist.out) :
       ~dist.out[k].isComplimentary => dist.out[k].newCustomsValue = MAX_ITEM_VALUE

\* C31 (as amended): request() makes at most maxRetries + 1 attempts; it
\* makes a further attempt only after an attempt that threw a network error
\* or an error with status >= 500, and then only after waiting retryDelay x
\* 2^attempt; an attempt that threw an authentication, GraphQL or quota (429)
\* error is the last one; every 401 response is followed by a forced token
\* refresh before anything is thrown.  A 401 whose forced refresh fails
\* with a network error throws that network error and is retried.
C31_RetriesOnlyTransientErrors ==
  /\ Len(client.log) <= client.maxRetries + 1
  /\ \A i \in 1..Len(client.log) :
       LET e == client.log[i]
       IN /\ e.attempt = i - 1
          /\ i < Len(client.log) \/ client.pc = "sleep" =>
               /\ e.error.kind = "network"
                  \/ (e.error.statusCode # Null /\ e.error.statusCode >= 500)
               /\ e.delay = client.retryDelay * pow2(i - 1)
          /\ e.error.kind \in {"auth", "graphql", "quota"} =>
               i = Len(client.log) /\ client.pc = "thrown"
          /\ e.response = "401" => e.refresh # "none"
          /\ e.response = "401" /\ e.refresh # "refresh_network_error" =>
               i = Len(client.log) /\ client.pc = "thrown"

\* C31 as stated: after a 401 response no further attempt is made.
C31_NoAttemptAfter401 ==
  \A i \in 1..Len(client.log) :
    client.log[i].response = "401" => i = Len(client.log) /\ client.pc = "thrown"

\* the retries were used up: maxRetries + 1 attempts, the last one thrown
C31_Witness ==
  /\ client.maxRetries = DEFAULT_MAX_RETRIES
  /\ Len(client.log) = client.maxRetries + 1
  /\ client.pc = "thrown"
  /\ client.log[Len(client.log)].error.statusCode = 503
  /\ client.log[3].delay = 4 * DEFAULT_RETRY_DELAY

\* an attempt was made after a 401 whose forced refresh failed
C31_WitnessAfter401 ==
  /\ Len(client.log) >= 2
  /\ client.log[1].response = "401"

\* C32: a getProcessingCursor call that finds no stored row and completes
\* stores the row with the configured start date and returns that date; a
\* call that finds a row returns its date and leaves the row as it is, so
\* repeated calls with no update in between return the same date; at most
\* one call ever inserts, and a stored row is never removed.
C32_FirstUseInitialisesOnce ==
  /\ [](Cardinality({r \in Runs : run[r].cursorRead = "initialised"}) <= 1)
  /\ [][/\ cursorRow.exists => cursorRow'.exists
        /\ \A r \in Runs :
             /\ (run[r].pc = "init_cursor" /\ run'[r].cursorRead = "initialised") =>
                  /\ ~cursorRow.exists
                  /\ cursorRow' = [exists |-> TRUE, lastProcessedDate |-> StartDate]
                  /\ run'[r].processingStartDate = StartDate
             /\ (run[r].pc = "idle" /\ run'[r].cursorRead = "row") =>
                  /\ cursorRow' = cursorRow
                  /\ run'[r].processingStartDate = cursorRow.lastProcessedDate]_vars

\* the second invocation reads the row the first one initialised and never
\* updated, and gets the start date again
C32_Witness ==
  /\ run[1].cursorRead = "initialised"
  /\ run[1].pc = "done"
  /\ run[2].cursorRead = "row"
  /\ run[2].processingStartDate = StartDate
  /\ cursorRow = [exists |-> TRUE, lastProcessedDate |-> StartDate]

\* two overlapping first uses: the later INSERT is refused, one row is stored
C32_WitnessRace ==
  /\ run[1].cursorRead = "initialised"
  /\ run[2].cursorRead = "fallback"
  /\ run[2].pc = "insert"
  /\ faults = MaxOverlapFaults
  /\ cursorRow.exists

\* C33: the date a run stores in the cursor, getLatestOrderDate of its
\* processed orders, is the maximum of their dates when that maximum is at
\* most one day after the current time and the current time otherwise; it
\* is never later than now + 1 day.
C33_LatestDateCappedToNow ==
  [][\A r \in Runs :
       (run[r].pc = "finish" /\ run'[r].cursorAttempt = "ok") =>
         LET dates == run[r].processedDates
             result == cursorRow'.lastProcessedDate
         IN /\ result <= now + ONE_DAY
            /\ IF \A d \in dates : d <= now + ONE_DAY
                 THEN result \in dates /\ \A d \in dates : d <= result
                 ELSE result = now]_vars

\* a run that processed an order dated more than a day ahead stored the
\* current time
C33_Witness ==
  \E r \in Runs :
    /\ run[r].pc = "save"
    /\ run[r].cursorAttempt = "ok"
    /\ \E d \in run[r].processedDates : d > now + ONE_DAY
    /\ cursorRow.lastProcessedDate = now

\* a run that processed two orders of the present stored the later date
C33_WitnessMax ==
  \E r \in Runs :
    /\ run[r].pc = "save"
    /\ run[r].cursorAttempt = "ok"
    /\ Cardinality(run[r].processedDates) = 2
    /\ \A d \in run[r].processedDates : d <= cursorRow.lastProcessedDate
    /\ cursorRow.lastProcessedDate < now

\* C34: every output of distributeCustomsValues passes validateDistribution
\* for the cap it was computed with.
C34_OutputValidates ==
  dist.done => validateDistribution(dist.out, dist.cap).valid

\* C35: the request check made by canProceed refuses with reason
\* request_limit exactly when at least 6900 requests lie inside the window,
\* and a refusal reports a wait with 0 < waitMs <= 5 minutes, the time
\* until the oldest request still counted leaves the window.
C35_RequestLimitWait ==
  call.op = "canProceed" =>
    LET check == canMakeRequest(call.before, call.at)
        counted == inWindow(call.before.requestTimestamps, call.at)
    IN /\ (~check.ok /\ check.reason = "request_limit") <=>
            (getRequestsInWindow(call.before, call.at) >=
               MAX_REQUESTS_PER_WINDOW - MIN_REQUESTS_BUFFER)
       /\ ~check.ok =>
            /\ 0 < check.waitMs
            /\ check.waitMs <= REQUEST_WINDOW_MS
            /\ check.waitMs = counted[1].at + REQUEST_WINDOW_MS - call.at

\* C36: at every point of a run, processed + skipped + errors is at most
\* the number of orders queried, and equal to it once the loops are over in
\* a run in which the throttle refused no order and nothing was thrown;
\* there is one error descriptor per counted error; and creditsUsed grows
\* by the creditsUsed of each order result and by nothing else.
C36_CountersAddUp ==
  /\ [](\A r \in Runs :
          /\ handled(run[r]) <= run[r].ordersQueried
          /\ Len(run[r].errorDetails) = run[r].errorsCount
          /\ (/\ run[r].pc \in {"finish", "save", "done"}
              /\ ~run[r].refused
              /\ ~run[r].caught.raised) =>
                handled(run[r]) = run[r].ordersQueried)
  /\ [][\A r \in Runs :
          LET new == handled(run'[r]) - handled(run[r])
          IN /\ new \in {0, 1}
             /\ run'[r].creditsUsed =
                  run[r].creditsUsed +
                    (IF new = 1 THEN run'[r].lastResult.creditsUsed ELSE 0)]_vars

\* a finished run without refusal or exception that counted a processed
\* order, an error and credits
C36_Witness ==
  \E r \in Runs :
    /\ run[r].pc = "done"
    /\ run[r].status = "completed"
    /\ ~run[r].refused
    /\ run[r].ordersQueried >= 2
    /\ handled(run[r]) = run[r].ordersQueried
    /\ run[r].ordersProcessed >= 1
    /\ run[r].errorsCount >= 1
    /\ run[r].creditsUsed > 0

\* a finished run in which the throttle refused an order: fewer orders
\* handled than queried
C36_WitnessRefused ==
  \E r \in Runs :
    /\ run[r].pc = "done"
    /\ run[r].refused
    /\ handled(run[r]) < run[r].ordersQueried

\* C37: right after a completed run has stored a new cursor, every eligible
\* untagged order that the source returns from the run's start date on and
\* that the run did not process successfully has an order date at or after
\* the stored cursor.
C37_CursorNotPastUnprocessed ==
  \A r \in Runs :
    (run[r].pc = "save" /\ run[r].status = "completed" /\ run[r].cursorAttempt = "ok") =>
      \A o \in OrderIds :
        (/\ \E i \in 1..Len(Statuses) : o \in matching(Statuses[i], run[r].processingStartDate)
         /\ o \notin remoteTags
         /\ skipReason(snapshot(o, remoteTags), config) = "none"
         /\ Catalogue[o].date \notin run[r].processedDates)
          => Catalogue[o].date >= cursorRow.lastProcessedDate

\* C38: in dry-run mode no run calls updateProcessingCursor, and the stored
\* cursor keeps the date it had before the dry runs (the configured start
\* date of its first use), so a later run queries from the same date.
C38_DryRunKeepsCursor ==
  config.dryRun =>
    /\ \A r \in Runs : run[r].cursorAttempt = "none"
    /\ cursorRow.exists => cursorRow.lastProcessedDate = StartDate

C39_WitnessInvalid ==
  \E r \in Runs :
    /\ run[r].response = "500" /\ run[r].authorized
    /\ config.enableCustomsUpdate /\ ~config.enableTagging

\* an authorized request answered with the "disabled" message
C39_WitnessDisabled ==
  \E r \in Runs : run[r].response = "disabled"

\* C40 as stated: a caller of refreshTokens, getValidToken or forceRefresh
\* that called while a refresh was pending does not come back before that
\* refresh has settled.
C40_EveryCallerWaits ==
  \A c \in Callers :
    (auth.callers[c].pendingAtCall # Null /\ auth.callers[c].pc \in {"returned", "threw"})
      => auth.promises[auth.callers[c].pendingAtCall] # "pending"

\* C40 amended: at most one refresh is pending, and a refresh is started
\* only when none is; the two flags are set exactly while the caller that
\* started a refresh has not yet run its finally block, so they are clear
\* once it has settled and that caller has continued; a caller that called
\* while a refresh was pending comes back before it settled only with the
\* token getValidToken found cached in KV.
C40_SingleRefreshInFlight ==
  /\ [](/\ Cardinality(pendingRefreshes(auth)) <= 1
        /\ auth.isRefreshing <=> auth.refreshPromise # Null
        /\ auth.isRefreshing <=>
              \E c \in Callers : /\ auth.callers[c].pc = "initiator"
                                 /\ auth.callers[c].waitsOn = auth.refreshPromise
        /\ \A p \in pendingRefreshes(auth) : auth.refreshPromise = p
        /\ \A c \in Callers :
             (/\ auth.callers[c].pendingAtCall # Null
              /\ auth.callers[c].pc \in {"returned", "threw"}
              /\ auth.promises[auth.callers[c].pendingAtCall] = "pending")
               => auth.callers[c].op = "getValidToken" /\ auth.callers[c].cached)
  /\ [][Len(auth'.promises) > Len(auth.promises) =>
          /\ pendingRefreshes(auth) = {}
          /\ Len(auth'.promises) = Len(auth.promises) + 1]_vars

\* three interleaved callers, one of each method, wait for the one refresh
C40_Witness ==
  /\ auth.promises = <<"pending">>
  /\ \A c \in Callers : auth.callers[c].waitsOn = 1
  /\ {auth.callers[c].op : c \in Callers} = AuthOps

\* getValidToken came back with the cached token while a refresh was pending
C40_WitnessCached ==
  \E c \in Callers :
    /\ auth.callers[c].cached
    /\ auth.callers[c].pendingAtCall # Null
    /\ auth.promises[auth.callers[c].pendingAtCall] = "pending"

\* a refresh failed, every caller that waited for it threw, the flags are clear
C40_WitnessFailed ==
  /\ auth.promises = <<"rejected">>
  /\ \A c \in Callers : auth.callers[c].pc = "threw"
  /\ ~auth.isRefreshing /\ auth.refreshPromise = Null

============================================================================
